---------------------------- MODULE Spec2Model ----------------------------
(***************************************************************************)
(* Model of the ESP-IDF component manager of embuild                       *)
(* (src/espidf/components): the path filter, the directory hasher, the     *)
(* cache marker and the installer IdfComponentManager::install.            *)
(*                                                                         *)
(* A component root on disk is a tree: a function from the relative paths  *)
(* of a small universe to a node (absent, directory, file with content).   *)
(* SHA-256 is modelled as collision free: a digest is the record wrapping  *)
(* the bytes that were fed to it.                                          *)
(***************************************************************************)
EXTENDS Integers, Sequences, FiniteSets, TLC

(***************************************************************************)
(* Bounds of the model.                                                    *)
(***************************************************************************)
\* modifications of the disk from outside the program in one behaviour
MaxExternal == 1
\* length of a published-version list in the version-selection specification
MaxVersions == 3
\* characters of a component name given to with_component
MaxNameLen == 2
\* components added to one manager by with_component
MaxComponents == 2

(***************************************************************************)
(* Paths.  A relative path is the sequence of its segments.                *)
(***************************************************************************)
HASH_FILENAME == ".component_hash"

MANIFEST_FILENAME == "idf_component.yml"

MarkerPath == <<HASH_FILENAME>>

ManifestPath == <<MANIFEST_FILENAME>>

\* The path universe of a component root, listed in ascending byte order of
\* the slash-joined relative path ('.' < 'b' < 'i' < 'l' < 'm';
\* "build" before "build/x.o").
PosixOrder ==
    << <<".component_hash">>, <<"build">>, <<"build", "x.o">>,
       <<"idf_component.yml">>, <<"legacy.c">>, <<"main.c">> >>

Paths == { PosixOrder[i] : i \in 1..Len(PosixOrder) }

PosixRank(p) == CHOOSE i \in 1..Len(PosixOrder) : PosixOrder[i] = p

\* A path text is a sequence of tokens: the characters "/" and "\" and the
\* separator-free pieces between them.
RECURSIVE SplitText(_, _)
\* The pieces of a text between "/" tokens, the only separator of a
\* non-Windows build; empty pieces are skipped.
SplitText(text, piece) ==
    IF text = <<>> THEN (IF piece = <<>> THEN <<>> ELSE <<piece>>)
    ELSE IF Head(text) = "/"
         THEN (IF piece = <<>> THEN <<>> ELSE <<piece>>)
              \o SplitText(Tail(text), <<>>)
         ELSE SplitText(Tail(text), Append(piece, Head(text)))

\* Path::components on a non-Windows build: a leading "/" is the root
\* component, a trailing "/" is ignored, "\" is an ordinary character.
Components(text) ==
    (IF text # <<>> /\ Head(text) = "/" THEN << <<"/">> >> ELSE <<>>)
    \o SplitText(text, <<>>)

RECURSIVE JoinComponents(_)
\* The text of a relative path made of the given components.
JoinComponents(comps) ==
    IF comps = <<>> THEN <<>>
    ELSE IF Len(comps) = 1 THEN comps[1]
    ELSE comps[1] \o <<"/">> \o JoinComponents(Tail(comps))

\* Path::strip_prefix: succeeds when the components of base are a prefix of
\* the components of path.
strip_prefix(path, base) ==
    LET pcs == Components(path)
        bcs == Components(base)
    IN  IF Len(bcs) <= Len(pcs) /\ SubSeq(pcs, 1, Len(bcs)) = bcs
        THEN [ok |-> TRUE,
              path |-> JoinComponents(SubSeq(pcs, Len(bcs) + 1, Len(pcs)))]
        ELSE [ok |-> FALSE, path |-> <<>>]

\* to_relative_posix_path.  Under cfg(windows) the body ends with the
\* statement `stripped_path.replace(r"\", "/");`, whose value is dropped, and
\* has no tail expression: the function does not type-check and there is no
\* build.  Under cfg(not(windows)) the stripped path is returned as it is, and
\* a path that does not start with root panics in expect.
to_relative_posix_path(platform, root, path) ==
    IF platform = "windows" THEN [status |-> "no_build", text |-> <<>>]
    ELSE LET stripped_path == strip_prefix(path, root)
         IN  IF ~stripped_path.ok THEN [status |-> "panic", text |-> <<>>]
             ELSE [status |-> "ok", text |-> stripped_path.path]

\* The root of the directory that is hashed, as a path text.
RootText == <<"/", "root">>

\* The path filtered_paths returns for the entry p of the tree: root joined
\* with the segments of p.
EntryText(p) ==
    RootText \o <<"/">> \o JoinComponents([i \in 1..Len(p) |-> <<p[i]>>])

\* rel_path of hash_dir for every entry of the tree, on the build that
\* exists: the segments of to_relative_posix_path(root, &p).
rel_paths ==
    [p \in Paths |->
        LET text == to_relative_posix_path("unix", RootText, EntryText(p)).text
            comps == SplitText(text, <<>>)
        IN  [i \in 1..Len(comps) |-> JoinComponents(<<comps[i]>>)[1]]]

rel_path(p) == rel_paths[p]

\* String::cmp on two relative paths of the universe (byte order).
RelPathLess(a, b) == PosixRank(a) < PosixRank(b)

(***************************************************************************)
(* Trees.                                                                  *)
(***************************************************************************)
Absent == [kind |-> "absent"]

DirNode == [kind |-> "dir"]

FileNode(c) == [kind |-> "file", content |-> c]

EmptyTree == [p \in Paths |-> Absent]

NoDir == [exists |-> FALSE, tree |-> EmptyTree]

Present(tree) == { p \in Paths : tree[p].kind # "absent" }

IsFile(tree, p) == tree[p].kind = "file"

\* Writing a file creates its missing parent directories.
WriteFile(tree, p, c) ==
    [q \in Paths |->
        IF q = p THEN FileNode(c)
        ELSE IF Len(q) < Len(p) /\ SubSeq(p, 1, Len(q)) = q THEN DirNode
        ELSE tree[q]]

\* An entry that remove_dir_all can delete next: a file, or a directory whose
\* children are gone.
Removable(tree) ==
    { p \in Present(tree) :
        \A q \in Present(tree) : ~(Len(q) > Len(p) /\ SubSeq(q, 1, Len(p)) = p) }

(***************************************************************************)
(* Path filter (file_util.rs).  A glob pattern is the sequence of its      *)
(* slash-separated segments.                                               *)
(***************************************************************************)
\* The default list without its last entry, the hash file.
DEFAULT_EXCLUDE_without_hash_file ==
    << <<"**", "__pycache__">>, <<"**", "*.pyc">>, <<"**", "*.pyd">>,
       <<"**", "*.pyo">>, <<"**", ".DS_Store">>,
       <<"**", ".git", "**", "*">>, <<"**", ".svn", "**", "*">>,
       <<"**", "dist", "**", "*">>, <<"**", "build", "**", "*">>,
       <<"**", "managed_components", "**", "*">>,
       <<"**", "dependencies.lock">>,
       <<"**", ".github", "**", "*">>, <<"**", ".gitlab-ci.yml">>,
       <<"**", ".idea", "**", "*">>, <<"**", ".vscode", "**", "*">>,
       <<"**", ".settings", "**", "*">>,
       <<"**", "sdkconfig">>, <<"**", "sdkconfig.old">> >>

DEFAULT_EXCLUDE ==
    << <<"**", "__pycache__">>, <<"**", "*.pyc">>, <<"**", "*.pyd">>,
       <<"**", "*.pyo">>, <<"**", ".DS_Store">>,
       <<"**", ".git", "**", "*">>, <<"**", ".svn", "**", "*">>,
       <<"**", "dist", "**", "*">>, <<"**", "build", "**", "*">>,
       <<"**", "managed_components", "**", "*">>,
       <<"**", "dependencies.lock">>,
       <<"**", ".github", "**", "*">>, <<"**", ".gitlab-ci.yml">>,
       <<"**", ".idea", "**", "*">>, <<"**", ".vscode", "**", "*">>,
       <<"**", ".settings", "**", "*">>,
       <<"**", "sdkconfig">>, <<"**", "sdkconfig.old">>,
       <<"**", ".component_hash">> >>

\* The file names of the universe that end in a given extension.
SuffixFacts == {}

\* One pattern segment against one path segment.
SegMatch(ps, s) ==
    IF ps = "*" THEN TRUE
    ELSE IF ps \in {"*.pyc", "*.pyd", "*.pyo"} THEN <<s, ps>> \in SuffixFacts
    ELSE ps = s

RECURSIVE GlobMatch(_, _)
\* globwalk: "**" spans zero or more segments, any other segment exactly one.
GlobMatch(pat, p) ==
    IF pat = <<>> THEN p = <<>>
    ELSE IF Head(pat) = "**"
         THEN \/ GlobMatch(Tail(pat), p)
              \/ p # <<>> /\ GlobMatch(pat, Tail(p))
    ELSE /\ p # <<>>
         /\ SegMatch(Head(pat), Head(p))
         /\ GlobMatch(Tail(pat), Tail(p))

\* pattern.ends_with("/**/*")
IsGlobstar(pat) ==
    Len(pat) > 2 /\ pat[Len(pat) - 1] = "**" /\ pat[Len(pat)] = "*"

\* &pattern[..index]
StripGlobstar(pat) == SubSeq(pat, 1, Len(pat) - 2)

\* The patterns every call of filtered_paths may walk: "**/*", the default
\* patterns, and the default patterns without their "/**/*" ending.
WalkedPatterns ==
    { <<"**", "*">> }
    \cup { DEFAULT_EXCLUDE[i] : i \in 1..Len(DEFAULT_EXCLUDE) }
    \cup { StripGlobstar(DEFAULT_EXCLUDE[i]) :
             i \in { k \in 1..Len(DEFAULT_EXCLUDE) :
                        IsGlobstar(DEFAULT_EXCLUDE[k]) } }

\* The paths of the universe each of them matches: a match is a matter of
\* the pattern and the path alone.
Walked == [pat \in WalkedPatterns |-> { p \in Paths : GlobMatch(pat, p) }]

\* evaluate_glob: the entries of the tree the pattern matches.
evaluate_glob(tree, pat) ==
    IF pat \in WalkedPatterns
    THEN { p \in Walked[pat] : tree[p].kind # "absent" }
    ELSE { p \in Present(tree) : GlobMatch(pat, p) }

\* A default pattern that removes its matches only.
DefaultExcluded_matches_only(tree, pat) == evaluate_glob(tree, pat)

\* What one default pattern removes: its matches and, for a globstar
\* pattern, the directory entry itself.
DefaultExcluded(tree, pat) ==
    evaluate_glob(tree, pat) \cup
        (IF IsGlobstar(pat) THEN evaluate_glob(tree, StripGlobstar(pat)) ELSE {})

\* filtered_paths without the loop over the user patterns.
filtered_paths_defaults_only(tree, exclude, exclude_default) ==
    LET all == evaluate_glob(tree, <<"**", "*">>)
        byDefault ==
            IF exclude_default
            THEN UNION { DefaultExcluded(tree, DEFAULT_EXCLUDE[i]) :
                            i \in 1..Len(DEFAULT_EXCLUDE) }
            ELSE {}
    IN  all \ byDefault

\* filtered_paths that treats the user patterns like the default ones.
filtered_paths_strips_user(tree, exclude, exclude_default) ==
    LET all == evaluate_glob(tree, <<"**", "*">>)
        byDefault ==
            IF exclude_default
            THEN UNION { DefaultExcluded(tree, DEFAULT_EXCLUDE[i]) :
                            i \in 1..Len(DEFAULT_EXCLUDE) }
            ELSE {}
        byUser == UNION { DefaultExcluded(tree, exclude[i]) : i \in 1..Len(exclude) }
    IN  (all \ byDefault) \ byUser

filtered_paths(tree, exclude, exclude_default) ==
    LET all == evaluate_glob(tree, <<"**", "*">>)
        byDefault ==
            IF exclude_default
            THEN UNION { DefaultExcluded(tree, DEFAULT_EXCLUDE[i]) :
                            i \in 1..Len(DEFAULT_EXCLUDE) }
            ELSE {}
        byUser == UNION { evaluate_glob(tree, exclude[i]) : i \in 1..Len(exclude) }
    IN  (all \ byDefault) \ byUser

(***************************************************************************)
(* Content hasher (hashing.rs).                                            *)
(***************************************************************************)
\* SHA-256 followed by lowercase hex formatting, collision free.
Sha256Hex(fed) == [form |-> "lower", digest |-> fed]

hash_file(tree, p) == Sha256Hex(tree[p].content)

RECURSIVE SortByRelPath(_)
\* entries.sort_by(|(_, a), (_, b)| a.cmp(&b))
SortByRelPath(S) ==
    IF S = {} THEN <<>>
    ELSE LET least == CHOOSE p \in S : \A q \in S \ {p} :
                          RelPathLess(rel_path(p),
                                      rel_path(q))
         IN  <<least>> \o SortByRelPath(S \ {least})

RECURSIVE FeedEntries_paths_only(_, _)
\* A loop of hash_dir that feeds the relative paths and not the contents.
FeedEntries_paths_only(tree, entries) ==
    IF entries = <<>> THEN <<>>
    ELSE LET p == Head(entries)
         IN  (IF ~IsFile(tree, p) THEN <<>>
              ELSE << [path |-> rel_path(p),
                       digest |-> Sha256Hex(<<>>)] >>)
             \o FeedEntries_paths_only(tree, Tail(entries))

RECURSIVE FeedEntries_with_directories(_, _)
\* A loop of hash_dir without `if path.is_dir() { continue; }`: a directory
\* feeds its relative path.
FeedEntries_with_directories(tree, entries) ==
    IF entries = <<>> THEN <<>>
    ELSE LET p == Head(entries)
         IN  (IF ~IsFile(tree, p)
              THEN << [path |-> rel_path(p), digest |-> Sha256Hex(<<>>)] >>
              ELSE << [path |-> rel_path(p),
                       digest |-> hash_file(tree, p)] >>)
             \o FeedEntries_with_directories(tree, Tail(entries))

RECURSIVE FeedEntries(_, _)
\* The loop of hash_dir: directories are skipped; a file feeds its relative
\* path and then the digest of its content.
FeedEntries(tree, entries) ==
    IF entries = <<>> THEN <<>>
    ELSE LET p == Head(entries)
         IN  (IF ~IsFile(tree, p) THEN <<>>
              ELSE << [path |-> rel_path(p),
                       digest |-> hash_file(tree, p)] >>)
             \o FeedEntries(tree, Tail(entries))

hash_dir(tree, excludes, exclude_default) ==
    Sha256Hex(FeedEntries(tree,
        SortByRelPath(filtered_paths(tree, excludes, exclude_default))))

\* The texts a marker file may hold: the 64 hex characters of a digest in
\* lower or upper case, or a truncated digest, each also with white space
\* around it ("lower_ws", "upper_ws", "trunc_ws").
\* Regex ^[A-Fa-f0-9]{64}$ on a text: a digest in lower or upper case hex
\* and nothing else.
IsSha256Text(text) == text.form \in {"lower", "upper"}

\* str::trim: leading and trailing white space is removed.
trim(text) ==
    IF text.form = "lower_ws" THEN [text EXCEPT !.form = "lower"]
    ELSE IF text.form = "upper_ws" THEN [text EXCEPT !.form = "upper"]
    ELSE IF text.form = "trunc_ws" THEN [text EXCEPT !.form = "trunc"]
    ELSE text

\* validate_dir that forgets every exclusion, the marker's own included.
validate_dir_includes_marker(dir, dir_hash) ==
    IF dir.exists
    THEN hash_dir(dir.tree, <<>>, FALSE) = dir_hash
    ELSE "not_a_dir"

\* validate_dir that never recomputes the hash.
validate_dir_trusting(dir, dir_hash) ==
    IF dir.exists THEN TRUE ELSE "not_a_dir"

\* validate_dir that compares the hex digits without regard to case.
validate_dir_ignoring_case(dir, dir_hash) ==
    IF dir.exists
    THEN hash_dir(dir.tree, << <<HASH_FILENAME>> >>, TRUE).digest
            = dir_hash.digest
         /\ dir_hash.form \in {"lower", "upper"}
    ELSE "not_a_dir"

\* validate_dir: TRUE/FALSE, or "not_a_dir".
validate_dir(dir, dir_hash) ==
    IF dir.exists
    THEN hash_dir(dir.tree, << <<HASH_FILENAME>> >>, TRUE) = dir_hash
    ELSE "not_a_dir"

\* validate_dir_with_hash_file without the pattern check and the comparison.
validate_dir_with_hash_file_unchecked(dir) ==
    IF ~dir.exists \/ ~IsFile(dir.tree, MarkerPath) THEN "hash_file_missing"
    ELSE "ok"

\* validate_dir_with_hash_file that does not trim what it reads.
validate_dir_with_hash_file_untrimmed(dir) ==
    IF ~dir.exists \/ ~IsFile(dir.tree, MarkerPath) THEN "hash_file_missing"
    ELSE LET hash_from_file == dir.tree[MarkerPath].content
         IN  IF ~IsSha256Text(hash_from_file) THEN "not_a_sha256"
             ELSE IF ~validate_dir(dir, hash_from_file) THEN "hash_changed"
             ELSE "ok"

\* validate_dir_with_hash_file: "ok", or the error it returns.
validate_dir_with_hash_file(dir) ==
    IF ~dir.exists \/ ~IsFile(dir.tree, MarkerPath) THEN "hash_file_missing"
    ELSE LET hash_from_file == trim(dir.tree[MarkerPath].content)
         IN  IF ~IsSha256Text(hash_from_file) THEN "not_a_sha256"
             ELSE IF ~validate_dir(dir, hash_from_file) THEN "hash_changed"
             ELSE "ok"

\* create_hash_file that leaves an existing marker file as it is.
create_hash_file_keeps(dir, hash) ==
    IF IsFile(dir.tree, MarkerPath) THEN dir
    ELSE [dir EXCEPT !.tree = WriteFile(dir.tree, MarkerPath, hash)]

\* create_hash_file: File::create truncates, then the hash is written.
create_hash_file(dir, hash) ==
    [dir EXCEPT !.tree = WriteFile(dir.tree, MarkerPath, hash)]

write_hash_file(dir, hash) == create_hash_file(dir, hash)

\* read_hash_file: fails when the marker file is absent, else its content
\* without the white space around it.
read_hash_file(dir) ==
    IF dir.exists /\ IsFile(dir.tree, MarkerPath)
    THEN [ok |-> TRUE, hash |-> trim(dir.tree[MarkerPath].content)]
    ELSE [ok |-> FALSE, hash |-> Sha256Hex(<<>>)]

(***************************************************************************)
(* Semantic versions and version requests (crate semver, no pre-releases). *)
(***************************************************************************)
V100 == <<1, 0, 0>>

V110 == <<1, 1, 0>>

V120 == <<1, 2, 0>>

V200 == <<2, 0, 0>>

Versions == {V100, V110, V120, V200}

\* Version::cmp: precedence by major, then minor, then patch.
VersionLess(a, b) ==
    \/ a[1] < b[1]
    \/ a[1] = b[1] /\ a[2] < b[2]
    \/ a[1] = b[1] /\ a[2] = b[2] /\ a[3] < b[3]

Caret(v) == [op |-> "^", v |-> v]

Exact(v) == [op |-> "=", v |-> v]

\* VersionReq::matches for the comparators "^I.J.K" and "=I.J.K".
Matches(req, v) ==
    IF req.op = "=" THEN v = req.v
    ELSE IF req.v[1] > 0
         THEN v[1] = req.v[1] /\ ~VersionLess(v, req.v)
    ELSE IF req.v[2] > 0
         THEN v[1] = 0 /\ v[2] = req.v[2] /\ v[3] >= req.v[3]
    ELSE v = req.v

(***************************************************************************)
(* The registry and its archives (external collaborators).                 *)
(***************************************************************************)
Url(name, v) == [component |-> name, version |-> v]

Published(name, v, yanked) ==
    [version |-> v, url |-> Url(name, v), yanked |-> yanked]

\* The components the registry knows, with their published versions in
\* registry order.
Registry(ns, name) ==
    IF ns = "espressif" /\ name = "mdns"
    THEN << Published("mdns", V100, FALSE), Published("mdns", V110, TRUE),
            Published("mdns", V120, FALSE), Published("mdns", V200, FALSE) >>
    ELSE IF ns = "espressif" /\ name = "led"
    THEN << Published("led", V100, FALSE) >>
    ELSE <<>>

Manifest(v) == [version |-> v]

Source(file, url) == [source |-> file, of |-> url]

\* The tar entries behind a download URL, in archive order.  An archive
\* carries the manifest of the version it was published as, and no marker;
\* the malformed package "bare" carries no manifest.
Archive(url) ==
    IF url.component = "mdns" /\ url.version[1] = 1
    THEN << [path |-> <<"main.c">>, content |-> Source("main", url)],
            [path |-> ManifestPath, content |-> Manifest(url.version)],
            [path |-> <<"legacy.c">>, content |-> Source("legacy", url)] >>
    ELSE IF url.component = "mdns"
    THEN << [path |-> <<"main.c">>, content |-> Source("main", url)],
            [path |-> ManifestPath, content |-> Manifest(url.version)] >>
    ELSE IF url.component = "bare"
    THEN << [path |-> <<"main.c">>, content |-> Source("main", url)] >>
    ELSE << [path |-> ManifestPath, content |-> Manifest(url.version)] >>

NoVersion == Published("", V100, TRUE)

\* find_best_match that takes the first match in registry order.
find_best_match_first(versions, version_req) ==
    LET cand == { i \in 1..Len(versions) :
                    ~versions[i].yanked /\ Matches(version_req, versions[i].version) }
    IN  IF cand = {} THEN [found |-> FALSE, version |-> NoVersion]
        ELSE [found |-> TRUE,
              version |-> versions[CHOOSE i \in cand : \A j \in cand : i <= j]]

\* api::find_best_match: the highest non-yanked version the request matches,
\* or none.
find_best_match(versions, version_req) ==
    LET cand == { i \in 1..Len(versions) :
                    ~versions[i].yanked /\ Matches(version_req, versions[i].version) }
    IN  IF cand = {} THEN [found |-> FALSE, version |-> NoVersion]
        ELSE [found |-> TRUE,
              version |-> versions[CHOOSE i \in cand : \A j \in cand :
                              ~VersionLess(versions[i].version, versions[j].version)]]

\* metadata::read_component_metadata: the manifest of a root, if it is there.
read_component_metadata(dir) ==
    IF dir.exists /\ IsFile(dir.tree, ManifestPath)
    THEN [some |-> TRUE, metadata |-> dir.tree[ManifestPath].content]
    ELSE [some |-> FALSE, metadata |-> Manifest(V100)]

\* metadata::installed_component_matches_version: the root exists, its
\* manifest version satisfies the request and, if a marker exists, the marker
\* is valid and matches the recomputed hash.
installed_component_matches_version(version_req, dir) ==
    /\ dir.exists
    /\ read_component_metadata(dir).some
    /\ Matches(version_req, read_component_metadata(dir).metadata.version)
    /\ (IsFile(dir.tree, MarkerPath) => validate_dir_with_hash_file(dir) = "ok")

(***************************************************************************)
(* The dependency manager (mod.rs).                                        *)
(***************************************************************************)
IdfComponentDep(ns, name, req) ==
    [namespace |-> ns, name |-> name, version_req |-> req]

ResolvedIdfComponent(ns, name, version, component_hash, path) ==
    [namespace |-> ns, name |-> name, version |-> version,
     component_hash |-> component_hash, path |-> path]

\* components_dir.join(format!("{}__{}", namespace, name))
TargetPath(c) == c.namespace \o "__" \o c.name

\* The requests a manager is built from.
Deps ==
    { IdfComponentDep("espressif", "mdns", Caret(V100)),
      IdfComponentDep("espressif", "mdns", Caret(V200)),
      IdfComponentDep("espressif", "mdns", Exact(V110)),
      IdfComponentDep("espressif", "led", Caret(V100)) }

\* The component lists of the managers install() is called on.
DepLists ==
    { <<a>> : a \in Deps } \cup
    { << IdfComponentDep("espressif", "mdns", Caret(V100)),
         IdfComponentDep("espressif", "led", Caret(V100)) >>,
      << IdfComponentDep("espressif", "led", Caret(V100)),
         IdfComponentDep("espressif", "mdns", Caret(V200)) >>,
      << IdfComponentDep("espressif", "mdns", Exact(V110)),
         IdfComponentDep("espressif", "led", Caret(V100)) >>,
      << IdfComponentDep("espressif", "mdns", Caret(V100)),
         IdfComponentDep("espressif", "mdns", Caret(V200)) >> }

Roots == { TargetPath(c) : c \in Deps }

VARIABLES
    disk,           \* the components directory: root -> directory
    tainted,        \* roots changed from outside since the program made them
    removing,       \* roots with a remove_dir_all begun and not completed
    pc,             \* where install() stands
    requests,       \* self.components of the running (or last) call
    idx,            \* position of the for loop of install()
    components,     \* the Vec install() accumulates
    metadata,       \* install_component: the versions the registry returned
    version,        \* install_component: the version selected
    pending,        \* download_and_unpack: archive entries not yet unpacked
    hash,           \* install_component: result of hash_dir
    component_hash, \* resolve_component: result of read_hash_file
    outcome,        \* how the last call ended
    pre,            \* history: disk and counters when the request was checked
    decision,       \* history: the branch resolve_component took
    apiCalls,       \* history: registry-metadata calls of this call
    downloads,      \* history: archive downloads of this call
    removals,       \* history: completed remove_dir_all of this call
    previous,       \* history: whether this call repeats a successful one
    quiet,          \* history: no outside change since this call started
    externals,      \* outside modifications so far
    builder,        \* with_component: the manager being built and its last call
    hashing         \* hash_dir called on a directory of its own

vars ==
    << disk, tainted, removing, pc, requests, idx, components, metadata, version,
       pending, hash, component_hash, outcome, pre, decision, apiCalls,
       downloads, removals, previous, quiet, externals, builder, hashing >>

locals == << metadata, version, pending, hash, component_hash >>

env == << tainted, removing, previous, quiet, externals, builder, hashing >>

counters == << apiCalls, downloads, removals >>

Component == requests[idx]

Root == TargetPath(Component)

NoOutcome ==
    [status |-> "none", kind |-> "", root |-> "", solution |-> <<>>,
     available_versions |-> <<>>]

Snapshot(dir) ==
    [dir |-> dir, apiCalls |-> apiCalls, downloads |-> downloads,
     removals |-> removals]

NoPrevious == [repeated |-> FALSE, solution |-> <<>>]

NoSnapshot ==
    [dir |-> NoDir, apiCalls |-> 0, downloads |-> 0, removals |-> 0]

\* No manager is being built.
NoBuilder ==
    [components |-> <<>>, returned |-> "none", error |-> "", name |-> <<>>,
     version_spec |-> ""]

\* No directory is being hashed on its own.
NoHashing ==
    [tree |-> EmptyTree, excludes |-> <<>>, exclude_default |-> TRUE,
     hashed |-> FALSE, result |-> Sha256Hex(<<>>),
     compared |-> FALSE, before |-> Sha256Hex(<<>>),
     edit |-> "none", path |-> <<>>,
     listed |-> FALSE, paths |-> {},
     platform |-> "unix", root |-> <<>>, abs |-> <<>>,
     relative |-> [status |-> "none", text |-> <<>>],
     files |-> {}, fed |-> FALSE, bytes |-> <<>>]

Init ==
    /\ disk = [r \in Roots |-> NoDir]
    /\ tainted = [r \in Roots |-> FALSE]
    /\ removing = [r \in Roots |-> FALSE]
    /\ pc = "idle"
    /\ requests = <<>>
    /\ idx = 0
    /\ components = <<>>
    /\ metadata = <<>>
    /\ version = NoVersion
    /\ pending = <<>>
    /\ hash = Sha256Hex(<<>>)
    /\ component_hash = Sha256Hex(<<>>)
    /\ outcome = NoOutcome
    /\ pre = NoSnapshot
    /\ decision = "none"
    /\ apiCalls = 0
    /\ downloads = 0
    /\ removals = 0
    /\ previous = NoPrevious
    /\ quiet = TRUE
    /\ externals = 0
    /\ builder = NoBuilder
    /\ hashing = NoHashing

\* An error that is recorded while resolve_component goes on as if
\* install_component had returned Ok.
Fails_continues(kind, available) ==
    /\ pc' = "read_hash"
    /\ outcome' = [status |-> "err", kind |-> kind, root |-> Root,
                   solution |-> <<>>, available_versions |-> available]

\* The call ends with an error returned to the caller.
Fails(kind, available) ==
    /\ pc' = "ended"
    /\ outcome' = [status |-> "err", kind |-> kind, root |-> Root,
                   solution |-> <<>>, available_versions |-> available]

\* install() is called on a manager holding the component list deps.
install(deps) ==
    /\ pc = "idle"
    /\ previous' = IF outcome.status = "ok" /\ quiet /\ requests = deps
                    THEN [repeated |-> TRUE, solution |-> outcome.solution]
                    ELSE NoPrevious
    /\ quiet' = TRUE
    /\ requests' = deps
    /\ idx' = 1
    /\ components' = <<>>
    /\ apiCalls' = 0
    /\ downloads' = 0
    /\ removals' = 0
    /\ decision' = "none"
    /\ pc' = "check"
    /\ UNCHANGED << disk, tainted, removing, locals, outcome, pre, externals,
                    builder, hashing >>

\* resolve_component that installs without looking at the cache.
resolve_component_reinstalls ==
    /\ pc = "check"
    /\ pre' = Snapshot(disk[Root])
    /\ decision' = "stale"
    /\ pc' = "remove"
    /\ UNCHANGED << disk, requests, idx, components, locals, outcome,
                    counters, env >>

\* resolve_component that keeps whatever directory is there.
resolve_component_keeps ==
    /\ pc = "check"
    /\ pre' = Snapshot(disk[Root])
    /\ IF disk[Root].exists
       THEN decision' = "hit" /\ pc' = "read_hash"
       ELSE decision' = "stale" /\ pc' = "remove"
    /\ UNCHANGED << disk, requests, idx, components, locals, outcome,
                    counters, env >>

\* resolve_component, the cache check: a matching installed component is
\* kept, anything else goes to install_component.
resolve_component ==
    /\ pc = "check"
    /\ pre' = Snapshot(disk[Root])
    /\ IF installed_component_matches_version(Component.version_req, disk[Root])
       THEN decision' = "hit" /\ pc' = "read_hash"
       ELSE decision' = "stale" /\ pc' = "remove"
    /\ UNCHANGED << disk, requests, idx, components, locals, outcome,
                    counters, env >>

\* install_component that does not delete the old component.
install_component_keeps_old ==
    /\ pc = "remove"
    /\ pc' = "api"
    /\ UNCHANGED << disk, requests, idx, components, locals, outcome, pre,
                    decision, counters, env >>

\* install_component: `if target_path.exists()`.
install_component ==
    /\ pc = "remove"
    /\ pc' = IF disk[Root].exists THEN "removing" ELSE "api"
    /\ UNCHANGED << disk, requests, idx, components, locals, outcome, pre,
                    decision, counters, env >>

\* remove_dir_all deletes one more entry of the old root, in directory order.
remove_entry ==
    /\ pc = "removing"
    /\ \E p \in Removable(disk[Root].tree) :
          disk' = [disk EXCEPT ![Root].tree[p] = Absent]
    /\ removing' = [removing EXCEPT ![Root] = TRUE]
    /\ UNCHANGED << pc, requests, idx, components, locals, outcome, pre,
                    decision, counters, tainted, previous, quiet, externals,
                    builder, hashing >>

\* A deletion that takes the whole components directory with it.
remove_root_wipes ==
    /\ pc = "removing"
    /\ Present(disk[Root].tree) = {}
    /\ disk' = [r \in Roots |-> NoDir]
    /\ tainted' = [tainted EXCEPT ![Root] = FALSE]
    /\ removing' = [removing EXCEPT ![Root] = FALSE]
    /\ removals' = removals + 1
    /\ pc' = "api"
    /\ UNCHANGED << requests, idx, components, locals, outcome, pre, decision,
                    apiCalls, downloads, previous, quiet, externals,
                    builder, hashing >>

\* remove_dir_all removes the emptied root itself and returns Ok.
remove_root ==
    /\ pc = "removing"
    /\ Present(disk[Root].tree) = {}
    /\ disk' = [disk EXCEPT ![Root] = NoDir]
    /\ tainted' = [tainted EXCEPT ![Root] = FALSE]
    /\ removing' = [removing EXCEPT ![Root] = FALSE]
    /\ removals' = removals + 1
    /\ pc' = "api"
    /\ UNCHANGED << requests, idx, components, locals, outcome, pre, decision,
                    apiCalls, downloads, previous, quiet, externals,
                    builder, hashing >>

\* remove_dir_all returns an error, at any point of the deletion.
remove_fails ==
    /\ pc = "removing"
    /\ Fails("remove", <<>>)
    /\ UNCHANGED << disk, requests, idx, components, locals, pre, decision,
                    counters, env >>

\* api_client.get_component returns the registry's metadata.
get_component ==
    /\ pc = "api"
    /\ Registry(Component.namespace, Component.name) # <<>>
    /\ apiCalls' = apiCalls + 1
    /\ metadata' = Registry(Component.namespace, Component.name)
    /\ pc' = "select"
    /\ UNCHANGED << disk, requests, idx, components, version, pending, hash,
                    component_hash, outcome, pre, decision, downloads,
                    removals, env >>

\* A failing api_client.get_component that is called again.
get_component_fails_retries ==
    /\ pc = "api"
    /\ apiCalls' = apiCalls + 1
    /\ UNCHANGED << pc, disk, requests, idx, components, locals, outcome, pre,
                    decision, downloads, removals, env >>

\* api_client.get_component fails (network, malformed response).
get_component_fails ==
    /\ pc = "api"
    /\ apiCalls' = apiCalls + 1
    /\ Fails("registry", <<>>)
    /\ UNCHANGED << disk, requests, idx, components, locals, pre, decision,
                    downloads, removals, env >>

\* available_versions that lists the kept versions newest entry first.
available_versions_reversed(versions) ==
    LET NotYanked(v) == ~v.yanked
        kept == SelectSeq(versions, NotYanked)
    IN  [i \in 1..Len(kept) |-> kept[Len(kept) + 1 - i].version]

\* available_versions without the filter on yanked_at.
available_versions_unfiltered(versions) ==
    [i \in 1..Len(versions) |-> versions[i].version]

\* The versions listed in the error message: those with yanked_at none.
available_versions(versions) ==
    LET NotYanked(v) == ~v.yanked
        kept == SelectSeq(versions, NotYanked)
    IN  [i \in 1..Len(kept) |-> kept[i].version]

\* install_component that falls back to the last published version when
\* nothing matches.
select_version_falls_back ==
    /\ pc = "select"
    /\ LET best == find_best_match(metadata, Component.version_req)
       IN  version' = IF best.found THEN best.version
                      ELSE metadata[Len(metadata)]
    /\ pc' = "download"
    /\ UNCHANGED << disk, requests, idx, components, metadata, pending, hash,
                    component_hash, outcome, pre, decision, counters, env >>

\* install_component: version selection.
select_version ==
    /\ pc = "select"
    /\ LET best == find_best_match(metadata, Component.version_req)
       IN  IF best.found
           THEN /\ version' = best.version
                /\ pc' = "download"
                /\ UNCHANGED outcome
           ELSE /\ Fails("no_match", available_versions(metadata))
                /\ UNCHANGED version
    /\ UNCHANGED << disk, requests, idx, components, metadata, pending, hash,
                    component_hash, pre, decision, counters, env >>

\* download_and_unpack: the GET succeeds and the archive starts to unpack.
download ==
    /\ pc = "download"
    /\ downloads' = downloads + 1
    /\ pending' = Archive(version.url)
    /\ pc' = "unpack"
    /\ UNCHANGED << disk, requests, idx, components, metadata, version, hash,
                    component_hash, outcome, pre, decision, apiCalls,
                    removals, env >>

\* download_and_unpack: the GET fails.
download_fails ==
    /\ pc = "download"
    /\ downloads' = downloads + 1
    /\ Fails("download", <<>>)
    /\ UNCHANGED << disk, requests, idx, components, locals, pre, decision,
                    apiCalls, removals, env >>

\* tar.unpack writes the next entry of the archive under the target path.
unpack_entry ==
    /\ pc = "unpack"
    /\ pending # <<>>
    /\ disk' = [disk EXCEPT ![Root] =
                  [exists |-> TRUE,
                   tree |-> WriteFile(disk[Root].tree, Head(pending).path,
                                      Head(pending).content)]]
    /\ pending' = Tail(pending)
    /\ pc' = IF Tail(pending) = <<>> THEN "hash" ELSE "unpack"
    /\ UNCHANGED << requests, idx, components, metadata, version, hash,
                    component_hash, outcome, pre, decision, counters, env >>

\* tar.unpack fails at the next entry.
unpack_fails ==
    /\ pc = "unpack"
    /\ Fails("unpack", <<>>)
    /\ UNCHANGED << disk, requests, idx, components, locals, pre, decision,
                    counters, env >>

\* install_component that hashes what was there before the download.
hash_unpacked_stale ==
    /\ pc = "hash"
    /\ hash' = hash_dir(pre.dir.tree, <<>>, TRUE)
    /\ pc' = "write"
    /\ UNCHANGED << disk, requests, idx, components, metadata, version,
                    pending, component_hash, outcome, pre, decision,
                    counters, env >>

\* install_component: hash_dir(target_path, vec![], true).
hash_unpacked ==
    /\ pc = "hash"
    /\ hash' = hash_dir(disk[Root].tree, <<>>, TRUE)
    /\ pc' = "write"
    /\ UNCHANGED << disk, requests, idx, components, metadata, version,
                    pending, component_hash, outcome, pre, decision,
                    counters, env >>

\* install_component: write_hash_file(target_path, &hash), then Ok.
write_marker ==
    /\ pc = "write"
    /\ disk' = [disk EXCEPT ![Root] = write_hash_file(disk[Root], hash)]
    /\ pc' = "read_hash"
    /\ UNCHANGED << requests, idx, components, locals, outcome, pre, decision,
                    counters, env >>

\* resolve_component that goes on without a hash when the marker cannot be
\* read.
read_marker_lenient ==
    /\ pc = "read_hash"
    /\ component_hash' = read_hash_file(disk[Root]).hash
    /\ pc' = "read_meta"
    /\ UNCHANGED << disk, requests, idx, components, metadata, version,
                    pending, hash, outcome, pre, decision, counters, env >>

\* resolve_component: read_hash_file(component_root)?.
read_marker ==
    /\ pc = "read_hash"
    /\ LET r == read_hash_file(disk[Root])
       IN  IF r.ok
           THEN /\ component_hash' = r.hash
                /\ pc' = "read_meta"
                /\ UNCHANGED outcome
           ELSE /\ Fails("hash_file", <<>>)
                /\ UNCHANGED component_hash
    /\ UNCHANGED << disk, requests, idx, components, metadata, version,
                    pending, hash, pre, decision, counters, env >>

\* install() that puts each resolved component in front of the earlier ones.
read_manifest_prepends ==
    /\ pc = "read_meta"
    /\ LET m == read_component_metadata(disk[Root])
           resolved ==
               ResolvedIdfComponent(Component.namespace, Component.name,
                   m.metadata.version,
                   [some |-> TRUE, hash |-> component_hash], Root)
       IN  IF ~m.some
           THEN /\ pc' = "ended"
                /\ outcome' = [status |-> "panic", kind |-> "manifest",
                               root |-> Root, solution |-> <<>>,
                               available_versions |-> <<>>]
                /\ UNCHANGED << idx, components, decision >>
           ELSE /\ components' = <<resolved>> \o components
                /\ IF idx = Len(requests)
                   THEN /\ pc' = "ended"
                        /\ outcome' = [status |-> "ok", kind |-> "",
                                       root |-> Root,
                                       solution |-> <<resolved>> \o components,
                                       available_versions |-> <<>>]
                        /\ UNCHANGED << idx, decision >>
                   ELSE /\ pc' = "check"
                        /\ idx' = idx + 1
                        /\ decision' = "none"
                        /\ UNCHANGED outcome
    /\ UNCHANGED << disk, requests, locals, pre, counters, env >>

\* resolve_component: the manifest is read and the resolved component is
\* pushed; install() goes on with the next request or returns the solution.
\* A missing manifest panics (`expect`).
read_manifest ==
    /\ pc = "read_meta"
    /\ LET m == read_component_metadata(disk[Root])
           resolved ==
               ResolvedIdfComponent(Component.namespace, Component.name,
                   m.metadata.version,
                   [some |-> TRUE, hash |-> component_hash], Root)
       IN  IF ~m.some
           THEN /\ pc' = "ended"
                /\ outcome' = [status |-> "panic", kind |-> "manifest",
                               root |-> Root, solution |-> <<>>,
                               available_versions |-> <<>>]
                /\ UNCHANGED << idx, components, decision >>
           ELSE /\ components' = Append(components, resolved)
                /\ IF idx = Len(requests)
                   THEN /\ pc' = "ended"
                        /\ outcome' = [status |-> "ok", kind |-> "",
                                       root |-> Root,
                                       solution |-> Append(components, resolved),
                                       available_versions |-> <<>>]
                        /\ UNCHANGED << idx, decision >>
                   ELSE /\ pc' = "check"
                        /\ idx' = idx + 1
                        /\ decision' = "none"
                        /\ UNCHANGED outcome
    /\ UNCHANGED << disk, requests, locals, pre, counters, env >>

\* The caller has the result, or the process was killed: the manager is
\* idle again and the locals of the call are gone.
Forgotten ==
    /\ pc' = "idle"
    /\ outcome' = IF outcome.status = "ok" /\ pc = "ended"
                   THEN [outcome EXCEPT !.root = ""]
                   ELSE [NoOutcome EXCEPT !.status = "failed"]
    /\ requests' = IF outcome.status = "ok" /\ pc = "ended" THEN requests ELSE <<>>
    /\ idx' = 0
    /\ components' = <<>>
    /\ metadata' = <<>>
    /\ version' = NoVersion
    /\ pending' = <<>>
    /\ hash' = Sha256Hex(<<>>)
    /\ component_hash' = Sha256Hex(<<>>)
    /\ pre' = NoSnapshot
    /\ decision' = "none"
    /\ apiCalls' = 0
    /\ downloads' = 0
    /\ removals' = 0
    /\ UNCHANGED << disk, env >>

\* The process is killed in the middle of install().
abandon ==
    /\ pc \notin {"idle", "ended"}
    /\ Forgotten

\* install() has returned to its caller.
finish ==
    /\ pc = "ended"
    /\ Forgotten

(***************************************************************************)
(* The world outside the program: between two calls somebody edits an     *)
(* installed component root.                                               *)
(***************************************************************************)
Truncated(text) == [form |-> "trunc", digest |-> text.digest]

\* What an outside writer may put at a path of a root.
ExternalContents(dir, p) ==
    IF p = MarkerPath
    THEN IF IsFile(dir.tree, p) THEN {Truncated(dir.tree[p].content)} ELSE {}
    ELSE IF p = ManifestPath THEN {Manifest(V200)}
    ELSE { Source("edited", Url("", V100)) }

\* The roots somebody edits.
EditedRoots == {"espressif__mdns"}

external_write(r, p) ==
    /\ pc = "idle"
    /\ externals < MaxExternal
    /\ disk[r].exists
    /\ p # <<"build">>
    /\ \E c \in ExternalContents(disk[r], p) :
          /\ disk[r].tree[p] # FileNode(c)
          /\ disk' = [disk EXCEPT ![r].tree = WriteFile(disk[r].tree, p, c)]
    /\ tainted' = [tainted EXCEPT ![r] = TRUE]
    /\ quiet' = FALSE
    /\ externals' = externals + 1
    /\ UNCHANGED << pc, requests, idx, components, locals, outcome, pre,
                    decision, counters, previous, removing, builder, hashing >>

external_remove(r, p) ==
    /\ pc = "idle"
    /\ externals < MaxExternal
    /\ disk[r].exists
    /\ p \in Removable(disk[r].tree)
    /\ disk' = [disk EXCEPT ![r].tree[p] = Absent]
    /\ tainted' = [tainted EXCEPT ![r] = TRUE]
    /\ quiet' = FALSE
    /\ externals' = externals + 1
    /\ UNCHANGED << pc, requests, idx, components, locals, outcome, pre,
                    decision, counters, previous, removing, builder, hashing >>

Next ==
    \/ \E deps \in DepLists : install(deps)
    \/ resolve_component
    \/ install_component
    \/ remove_entry
    \/ remove_root
    \/ remove_fails
    \/ get_component
    \/ get_component_fails
    \/ select_version
    \/ download
    \/ download_fails
    \/ unpack_entry
    \/ unpack_fails
    \/ hash_unpacked
    \/ write_marker
    \/ read_marker
    \/ read_manifest
    \/ abandon
    \/ finish
    \/ \E r \in EditedRoots, p \in Paths : external_write(r, p)
    \/ \E r \in EditedRoots, p \in Paths : external_remove(r, p)

Spec == Init /\ [][Next]_vars

(***************************************************************************)
(* Version selection on its own: install_component stands at the           *)
(* selection with any list of published versions the registry may return.  *)
(***************************************************************************)
PublishedSet == { Published("mdns", v, y) : v \in Versions, y \in BOOLEAN }

PublishedLists == UNION { [1..n -> PublishedSet] : n \in 1..MaxVersions }

InitSelect ==
    /\ disk = [r \in Roots |-> NoDir]
    /\ tainted = [r \in Roots |-> FALSE]
    /\ removing = [r \in Roots |-> FALSE]
    /\ pc = "select"
    /\ requests \in { <<d>> : d \in { c \in Deps : c.name = "mdns" } }
    /\ idx = 1
    /\ components = <<>>
    /\ metadata \in PublishedLists
    /\ version = NoVersion
    /\ pending = <<>>
    /\ hash = Sha256Hex(<<>>)
    /\ component_hash = Sha256Hex(<<>>)
    /\ outcome = NoOutcome
    /\ pre = NoSnapshot
    /\ decision = "stale"
    /\ apiCalls = 1
    /\ downloads = 0
    /\ removals = 0
    /\ previous = NoPrevious
    /\ quiet = TRUE
    /\ externals = 0
    /\ builder = NoBuilder
    /\ hashing = NoHashing

NextSelect == select_version

SpecSelect == InitSelect /\ [][NextSelect]_vars

(***************************************************************************)
(* install_component from the selection to the end of the call, with any   *)
(* list of published versions the registry may return.                     *)
(***************************************************************************)
NextFetch ==
    \/ select_version
    \/ download
    \/ download_fails
    \/ unpack_entry
    \/ unpack_fails
    \/ hash_unpacked
    \/ write_marker
    \/ read_marker
    \/ read_manifest
    \/ finish

SpecFetch == InitSelect /\ [][NextFetch]_vars

(***************************************************************************)
(* The same steps when the registry may also point at a malformed package,  *)
(* one that carries no manifest.                                            *)
(***************************************************************************)
UpstreamSet ==
    { Published(n, v, FALSE) : n \in {"mdns", "bare"}, v \in Versions }

UpstreamLists == UNION { [1..n -> UpstreamSet] : n \in 1..2 }

InitManifest ==
    /\ disk = [r \in Roots |-> NoDir]
    /\ tainted = [r \in Roots |-> FALSE]
    /\ removing = [r \in Roots |-> FALSE]
    /\ pc = "select"
    /\ requests \in { <<d>> : d \in { c \in Deps : c.name = "mdns" } }
    /\ idx = 1
    /\ components = <<>>
    /\ metadata \in UpstreamLists
    /\ version = NoVersion
    /\ pending = <<>>
    /\ hash = Sha256Hex(<<>>)
    /\ component_hash = Sha256Hex(<<>>)
    /\ outcome = NoOutcome
    /\ pre = NoSnapshot
    /\ decision = "stale"
    /\ apiCalls = 1
    /\ downloads = 0
    /\ removals = 0
    /\ previous = NoPrevious
    /\ quiet = TRUE
    /\ externals = 0
    /\ builder = NoBuilder
    /\ hashing = NoHashing

SpecManifest == InitManifest /\ [][NextFetch]_vars

(***************************************************************************)
(* Building the manager: IdfComponentManager::new and with_component.  A   *)
(* component name is a sequence of characters; "a" stands for any          *)
(* character other than the underscore and the slash.                      *)
(***************************************************************************)
NameChars == {"a", "_", "/"}

NameStrings == UNION { [1..n -> NameChars] : n \in 0..MaxNameLen }

VersionSpecs == {"^1.0.0", "=1.1.0", "latest"}

\* semver::VersionReq::parse on the version strings of the model.
VersionReq_parse(version_spec) ==
    IF version_spec = "^1.0.0" THEN [ok |-> TRUE, req |-> Caret(V100)]
    ELSE IF version_spec = "=1.1.0" THEN [ok |-> TRUE, req |-> Exact(V110)]
    ELSE [ok |-> FALSE, req |-> Caret(V100)]

\* A split at the first separator only, like str::split_once.
split_at_first(chars, sep) ==
    LET at == { i \in 1..Len(chars) : chars[i] = sep }
    IN  IF at = {} THEN <<chars>>
        ELSE LET k == CHOOSE i \in at : \A j \in at : i <= j
             IN  << SubSeq(chars, 1, k - 1), SubSeq(chars, k + 1, Len(chars)) >>

RECURSIVE split(_, _)
\* str::split: the pieces between the separators, empty pieces included.
split(chars, sep) ==
    IF chars = <<>> THEN << <<>> >>
    ELSE LET rest == split(Tail(chars), sep)
         IN  IF Head(chars) = sep
             THEN << <<>> >> \o rest
             ELSE << <<Head(chars)>> \o Head(rest) >> \o Tail(rest)

RECURSIVE to_string(_)
\* The String of a sequence of characters.
to_string(chars) ==
    IF chars = <<>> THEN "" ELSE Head(chars) \o to_string(Tail(chars))

\* IdfComponentManager::new
new == [NoBuilder EXCEPT !.returned = "new"]

InitBuild ==
    /\ disk = [r \in Roots |-> NoDir]
    /\ tainted = [r \in Roots |-> FALSE]
    /\ removing = [r \in Roots |-> FALSE]
    /\ pc = "idle"
    /\ requests = <<>>
    /\ idx = 0
    /\ components = <<>>
    /\ metadata = <<>>
    /\ version = NoVersion
    /\ pending = <<>>
    /\ hash = Sha256Hex(<<>>)
    /\ component_hash = Sha256Hex(<<>>)
    /\ outcome = NoOutcome
    /\ pre = NoSnapshot
    /\ decision = "none"
    /\ apiCalls = 0
    /\ downloads = 0
    /\ removals = 0
    /\ previous = NoPrevious
    /\ quiet = TRUE
    /\ externals = 0
    /\ builder = new
    /\ hashing = NoHashing

\* with_component that takes a default request when the version does not
\* parse.
with_component_lenient(name, version_spec) ==
    /\ builder.returned \in {"new", "ok"}
    /\ Len(builder.components) < MaxComponents
    /\ LET parsed == VersionReq_parse(version_spec)
           parts == split(name, "/")
           called == [builder EXCEPT !.name = name,
                                     !.version_spec = version_spec]
       IN  builder' =
             IF Len(parts) = 2
             THEN [called EXCEPT
                     !.components = Append(builder.components,
                         IdfComponentDep(to_string(parts[1]),
                                         to_string(parts[2]), parsed.req)),
                     !.returned = "ok", !.error = ""]
             ELSE [called EXCEPT !.returned = "err", !.error = "name"]
    /\ UNCHANGED << disk, tainted, removing, pc, requests, idx, components,
                    locals, outcome, pre, decision, counters, previous, quiet,
                    externals, hashing >>

\* with_component: the version request is parsed, then the name is split at
\* the slashes into namespace and name; the manager is taken by value and
\* given back only in Ok.
with_component(name, version_spec) ==
    /\ builder.returned \in {"new", "ok"}
    /\ Len(builder.components) < MaxComponents
    /\ LET parsed == VersionReq_parse(version_spec)
           parts == split(name, "/")
           called == [builder EXCEPT !.name = name,
                                     !.version_spec = version_spec]
       IN  builder' =
             IF ~parsed.ok
             THEN [called EXCEPT !.returned = "err", !.error = "version_req"]
             ELSE IF Len(parts) = 2
             THEN [called EXCEPT
                     !.components = Append(builder.components,
                         IdfComponentDep(to_string(parts[1]),
                                         to_string(parts[2]), parsed.req)),
                     !.returned = "ok", !.error = ""]
             ELSE [called EXCEPT !.returned = "err", !.error = "name"]
    /\ UNCHANGED << disk, tainted, removing, pc, requests, idx, components,
                    locals, outcome, pre, decision, counters, previous, quiet,
                    externals, hashing >>

NextBuild ==
    \E name \in NameStrings, version_spec \in VersionSpecs :
        with_component(name, version_spec)

SpecBuild == InitBuild /\ [][NextBuild]_vars

(***************************************************************************)
(* The hasher on a directory of its own: hash_dir is called, a file of the *)
(* directory is added, changed or removed, and hash_dir is called again    *)
(* with the same excludes.                                                 *)
(***************************************************************************)
RECURSIVE Enumerations(_)
\* paths.into_iter().collect(): the elements of the HashSet in any order.
Enumerations(S) ==
    IF S = {} THEN { <<>> }
    ELSE UNION { { <<p>> \o e : e \in Enumerations(S \ {p}) } : p \in S }

RECURSIVE sort_by_unsorted(_)
\* A sort that leaves the entries in the order the filter returned them.
sort_by_unsorted(entries) ==
    IF entries = <<>> THEN <<>>
    ELSE <<Head(entries)>> \o sort_by_unsorted(Tail(entries))

RECURSIVE sort_by(_)
\* entries.sort_by(|(_, a), (_, b)| a.cmp(&b)): a stable sort by relative
\* path.
sort_by(entries) ==
    IF entries = <<>> THEN <<>>
    ELSE LET x == Head(entries)
             rest == sort_by(Tail(entries))
             Before(y) == RelPathLess(rel_path(y),
                                      rel_path(x))
             NotBefore(y) == ~Before(y)
         IN  SelectSeq(rest, Before) \o <<x>> \o SelectSeq(rest, NotBefore)

\* hash_dir from the entries in the order filtered_paths returned them.
hash_dir_enumerated(tree, entries) ==
    Sha256Hex(FeedEntries(tree, sort_by(entries)))

\* The file contents of the directories that are hashed.
HashContents ==
    { Source("one", Url("", V100)), Source("two", Url("", V100)) }

\* The exclude arguments hash_dir is called with: install_component's,
\* validate_dir's, and user patterns without the default ones.
HashConfigs ==
    { [excludes |-> <<>>, exclude_default |-> TRUE],
      [excludes |-> << <<".component_hash">> >>, exclude_default |-> TRUE],
      [excludes |-> << <<"**", "x.o">>, <<"legacy.c">> >>,
       exclude_default |-> FALSE] }

InitHash ==
    /\ disk = [r \in Roots |-> NoDir]
    /\ tainted = [r \in Roots |-> FALSE]
    /\ removing = [r \in Roots |-> FALSE]
    /\ pc = "idle"
    /\ requests = <<>>
    /\ idx = 0
    /\ components = <<>>
    /\ metadata = <<>>
    /\ version = NoVersion
    /\ pending = <<>>
    /\ hash = Sha256Hex(<<>>)
    /\ component_hash = Sha256Hex(<<>>)
    /\ outcome = NoOutcome
    /\ pre = NoSnapshot
    /\ decision = "none"
    /\ apiCalls = 0
    /\ downloads = 0
    /\ removals = 0
    /\ previous = NoPrevious
    /\ quiet = TRUE
    /\ externals = 0
    /\ builder = NoBuilder
    /\ \E c \in HashConfigs :
          hashing = [NoHashing EXCEPT !.excludes = c.excludes,
                                      !.exclude_default = c.exclude_default]

\* hash_dir(root, excludes, exclude_default) is called; the filter hands its
\* paths over in the order entries.
hash_root(entries) ==
    /\ ~hashing.hashed
    /\ { entries[i] : i \in 1..Len(entries) } =
          filtered_paths(hashing.tree, hashing.excludes, hashing.exclude_default)
    /\ hashing' = [hashing EXCEPT
                     !.hashed = TRUE,
                     !.result = hash_dir_enumerated(hashing.tree, entries)]
    /\ UNCHANGED << disk, tainted, removing, pc, requests, idx, components,
                    locals, outcome, pre, decision, counters, previous, quiet,
                    externals, builder >>

\* The directory as it is after an edit, with the last hash kept for
\* comparison.
Edited(kind, p, tree) ==
    /\ hashing.hashed \/ hashing.listed
    /\ hashing' = [hashing EXCEPT
                     !.tree = tree, !.hashed = FALSE,
                     !.listed = FALSE, !.paths = {},
                     !.result = Sha256Hex(<<>>),
                     !.compared = TRUE, !.before = hashing.result,
                     !.edit = kind, !.path = p]
    /\ UNCHANGED << disk, tainted, removing, pc, requests, idx, components,
                    locals, outcome, pre, decision, counters, previous, quiet,
                    externals, builder >>

\* A new file is created at p (p is free and its parent is no file).
add_file(p, c) ==
    /\ hashing.tree[p].kind = "absent"
    /\ \A q \in Paths :
          (Len(q) < Len(p) /\ SubSeq(p, 1, Len(q)) = q)
          => ~IsFile(hashing.tree, q)
    /\ Edited("add", p, WriteFile(hashing.tree, p, c))

\* The bytes of the file at p are replaced.
change_file(p, c) ==
    /\ IsFile(hashing.tree, p)
    /\ hashing.tree[p].content # c
    /\ Edited("change", p, WriteFile(hashing.tree, p, c))

\* The file at p is deleted.
remove_file(p) ==
    /\ IsFile(hashing.tree, p)
    /\ Edited("remove", p, [hashing.tree EXCEPT ![p] = Absent])

\* The directories that are created and removed while empty.
EmptyDirs == { <<"build">> }

\* An empty directory is created at p.
add_dir(p) ==
    /\ hashing.tree[p].kind = "absent"
    /\ Edited("mkdir", p, [hashing.tree EXCEPT ![p] = DirNode])

\* The empty directory at p is removed.
remove_dir(p) ==
    /\ hashing.tree[p].kind = "dir"
    /\ \A q \in Present(hashing.tree) :
          ~(Len(q) > Len(p) /\ SubSeq(q, 1, Len(p)) = p)
    /\ Edited("rmdir", p, [hashing.tree EXCEPT ![p] = Absent])

NextHash ==
    \/ \E entries \in Enumerations(filtered_paths(hashing.tree,
                            hashing.excludes, hashing.exclude_default)) :
          hash_root(entries)
    \/ \E p \in Paths, c \in HashContents : add_file(p, c)
    \/ \E p \in Paths, c \in HashContents : change_file(p, c)
    \/ \E p \in Paths : remove_file(p)
    \/ \E p \in EmptyDirs : add_dir(p)
    \/ \E p \in EmptyDirs : remove_dir(p)

SpecHash == InitHash /\ [][NextHash]_vars

(***************************************************************************)
(* filtered_paths on its own: a directory is listed and edited in turn.     *)
(***************************************************************************)
\* The exclude arguments filtered_paths is called with: none, with and
\* without the default patterns, and user patterns ending in "/**/*".
FilterConfigs ==
    { [excludes |-> <<>>, exclude_default |-> TRUE],
      [excludes |-> <<>>, exclude_default |-> FALSE],
      [excludes |-> << <<"build", "**", "*">> >>, exclude_default |-> FALSE],
      [excludes |-> << <<"**", "build", "**", "*">>, <<"legacy.c">> >>,
       exclude_default |-> FALSE] }

FilterContents == { Source("one", Url("", V100)) }

InitFilter ==
    /\ disk = [r \in Roots |-> NoDir]
    /\ tainted = [r \in Roots |-> FALSE]
    /\ removing = [r \in Roots |-> FALSE]
    /\ pc = "idle"
    /\ requests = <<>>
    /\ idx = 0
    /\ components = <<>>
    /\ metadata = <<>>
    /\ version = NoVersion
    /\ pending = <<>>
    /\ hash = Sha256Hex(<<>>)
    /\ component_hash = Sha256Hex(<<>>)
    /\ outcome = NoOutcome
    /\ pre = NoSnapshot
    /\ decision = "none"
    /\ apiCalls = 0
    /\ downloads = 0
    /\ removals = 0
    /\ previous = NoPrevious
    /\ quiet = TRUE
    /\ externals = 0
    /\ builder = NoBuilder
    /\ \E c \in FilterConfigs :
          hashing = [NoHashing EXCEPT !.excludes = c.excludes,
                                      !.exclude_default = c.exclude_default]

\* filtered_paths(root, exclude, exclude_default) is called.
list_paths ==
    /\ ~hashing.listed
    /\ hashing' = [hashing EXCEPT
                     !.listed = TRUE,
                     !.paths = filtered_paths(hashing.tree, hashing.excludes,
                                              hashing.exclude_default)]
    /\ UNCHANGED << disk, tainted, removing, pc, requests, idx, components,
                    locals, outcome, pre, decision, counters, previous, quiet,
                    externals, builder >>

NextFilter ==
    \/ list_paths
    \/ \E p \in Paths, c \in FilterContents : add_file(p, c)
    \/ \E p \in Paths : remove_file(p)
    \/ \E p \in EmptyDirs : add_dir(p)
    \/ \E p \in EmptyDirs : remove_dir(p)

SpecFilter == InitFilter /\ [][NextFilter]_vars

\* The targets the crate is compiled for.
Platforms == {"unix", "windows"}

\* The roots to_relative_posix_path is called with, the one of
\* test_posix_formatting among them.
RootTexts ==
    { <<"/", "path">>, <<"/", "path", "/">>, <<"/", "root">>,
      <<"C:", "\\", "path", "\\">>, <<"C:", "\\", "path">> }

\* The paths to_relative_posix_path is called with.
PathTexts ==
    { <<"/", "path", "/", "to", "/", "file.txt">>,
      <<"/", "path", "/", "file.txt">>,
      <<"/", "root", "/", "build", "/", "x.o">>,
      <<"/", "root", "/", "main.c">>,
      <<"C:", "\\", "path", "\\", "to", "\\", "file.txt">>,
      <<"C:", "\\", "path", "\\", "file.txt">> }

InitPosix ==
    /\ disk = [r \in Roots |-> NoDir]
    /\ tainted = [r \in Roots |-> FALSE]
    /\ removing = [r \in Roots |-> FALSE]
    /\ pc = "idle"
    /\ requests = <<>>
    /\ idx = 0
    /\ components = <<>>
    /\ metadata = <<>>
    /\ version = NoVersion
    /\ pending = <<>>
    /\ hash = Sha256Hex(<<>>)
    /\ component_hash = Sha256Hex(<<>>)
    /\ outcome = NoOutcome
    /\ pre = NoSnapshot
    /\ decision = "none"
    /\ apiCalls = 0
    /\ downloads = 0
    /\ removals = 0
    /\ previous = NoPrevious
    /\ quiet = TRUE
    /\ externals = 0
    /\ builder = NoBuilder
    /\ \E pl \in Platforms, r \in RootTexts, a \in PathTexts :
          hashing = [NoHashing EXCEPT !.platform = pl, !.root = r, !.abs = a]

\* to_relative_posix_path(root, path) is called, as hash_dir and
\* test_posix_formatting do.
posix_formatting ==
    /\ hashing.relative.status = "none"
    /\ hashing' = [hashing EXCEPT
                     !.relative = to_relative_posix_path(hashing.platform,
                                      hashing.root, hashing.abs)]
    /\ UNCHANGED << disk, tainted, removing, pc, requests, idx, components,
                    locals, outcome, pre, decision, counters, previous, quiet,
                    externals, builder >>

NextPosix == posix_formatting

SpecPosix == InitPosix /\ [][NextPosix]_vars

(***************************************************************************)
(* The marker file on its own: a component root whose marker is written,   *)
(* read and validated by the functions of hashing.rs, and edited by hand    *)
(* in between.                                                             *)
(***************************************************************************)
MarkerRoot == "espressif__mdns"

\* The hashes hash_dir returns for the roots considered here.
MarkerHashes ==
    { hash_dir([EmptyTree EXCEPT ![<<"main.c">>] = n], <<>>, TRUE) :
        n \in {Absent} \cup { FileNode(c) : c \in HashContents } }

\* What a marker file may hold after an edit by hand.
MarkerTexts ==
    { [h EXCEPT !.form = f] :
        h \in MarkerHashes,
        f \in {"lower", "upper", "trunc", "lower_ws", "upper_ws", "trunc_ws"} }

InitMarker ==
    /\ disk = [r \in Roots |-> NoDir]
    /\ tainted = [r \in Roots |-> FALSE]
    /\ removing = [r \in Roots |-> FALSE]
    /\ pc = "idle"
    /\ requests = <<>>
    /\ idx = 0
    /\ components = <<>>
    /\ metadata = <<>>
    /\ version = NoVersion
    /\ pending = <<>>
    /\ hash = Sha256Hex(<<>>)
    /\ component_hash = Sha256Hex(<<>>)
    /\ outcome = NoOutcome
    /\ pre = NoSnapshot
    /\ decision = "none"
    /\ apiCalls = 0
    /\ downloads = 0
    /\ removals = 0
    /\ previous = NoPrevious
    /\ quiet = TRUE
    /\ externals = 0
    /\ builder = NoBuilder
    /\ hashing = NoHashing

Returned(status, kind) ==
    [status |-> status, kind |-> kind, root |-> MarkerRoot,
     solution |-> <<>>, available_versions |-> <<>>]

\* The root directory is created, empty.
create_root ==
    /\ ~disk[MarkerRoot].exists
    /\ disk' = [disk EXCEPT ![MarkerRoot] = [exists |-> TRUE, tree |-> EmptyTree]]
    /\ pc' = "idle"
    /\ outcome' = NoOutcome
    /\ UNCHANGED << tainted, hash, component_hash, requests, idx, components, metadata, version,
                    pending, pre, decision, counters, removing, previous,
                    quiet, externals, builder, hashing >>

\* Somebody writes the source file of the root; the results of the calls
\* made before are out of date and forgotten.
edit_source(c) ==
    /\ disk[MarkerRoot].exists
    /\ disk[MarkerRoot].tree[<<"main.c">>] # FileNode(c)
    /\ disk' = [disk EXCEPT ![MarkerRoot].tree =
                  WriteFile(disk[MarkerRoot].tree, <<"main.c">>, c)]
    /\ tainted' = [tainted EXCEPT ![MarkerRoot] = TRUE]
    /\ pc' = "idle"
    /\ outcome' = NoOutcome
    /\ hash' = Sha256Hex(<<>>)
    /\ component_hash' = Sha256Hex(<<>>)
    /\ pre' = NoSnapshot
    /\ UNCHANGED << requests, idx, components,
                    metadata, version, pending, decision, counters, removing,
                    previous, quiet, externals, builder, hashing >>

\* Somebody writes the marker file by hand.
edit_marker(text) ==
    /\ disk[MarkerRoot].exists
    /\ disk[MarkerRoot].tree[MarkerPath] # FileNode(text)
    /\ disk' = [disk EXCEPT ![MarkerRoot].tree =
                  WriteFile(disk[MarkerRoot].tree, MarkerPath, text)]
    /\ tainted' = [tainted EXCEPT ![MarkerRoot] = TRUE]
    /\ pc' = "idle"
    /\ outcome' = NoOutcome
    /\ hash' = Sha256Hex(<<>>)
    /\ component_hash' = Sha256Hex(<<>>)
    /\ pre' = NoSnapshot
    /\ UNCHANGED << requests, idx, components,
                    metadata, version, pending, decision, counters, removing,
                    previous, quiet, externals, builder, hashing >>

\* Somebody deletes the marker file.
remove_marker ==
    /\ disk[MarkerRoot].exists
    /\ IsFile(disk[MarkerRoot].tree, MarkerPath)
    /\ disk' = [disk EXCEPT ![MarkerRoot].tree[MarkerPath] = Absent]
    /\ tainted' = [tainted EXCEPT ![MarkerRoot] = TRUE]
    /\ pc' = "idle"
    /\ outcome' = NoOutcome
    /\ hash' = Sha256Hex(<<>>)
    /\ component_hash' = Sha256Hex(<<>>)
    /\ pre' = NoSnapshot
    /\ UNCHANGED << requests, idx, components,
                    metadata, version, pending, decision, counters, removing,
                    previous, quiet, externals, builder, hashing >>

\* write_hash_file(root, h) is called on an existing root.
write_hash(h) ==
    /\ disk[MarkerRoot].exists
    /\ pre' = Snapshot(disk[MarkerRoot])
    /\ disk' = [disk EXCEPT ![MarkerRoot] = write_hash_file(disk[MarkerRoot], h)]
    /\ hash' = h
    /\ tainted' = [tainted EXCEPT ![MarkerRoot] = FALSE]
    /\ pc' = "wrote"
    /\ outcome' = Returned("ok", "")
    /\ component_hash' = Sha256Hex(<<>>)
    /\ UNCHANGED << requests, idx, components, metadata, version, pending,
                    decision, counters, removing, previous, quiet, externals,
                    builder, hashing >>

\* read_hash_file(root) is called.
read_hash ==
    /\ pc # "read"
    /\ LET r == read_hash_file(disk[MarkerRoot])
       IN  IF r.ok
           THEN /\ component_hash' = r.hash
                /\ outcome' = Returned("ok", "")
           ELSE /\ outcome' = Returned("err", "hash_file")
                /\ UNCHANGED component_hash
    /\ pc' = "read"
    /\ UNCHANGED << disk, tainted, hash, requests, idx, components, metadata, version,
                    pending, pre, decision, counters, removing, previous,
                    quiet, externals, builder, hashing >>

\* validate_dir_with_hash_file(root) is called.
validate_root ==
    /\ pc # "validated"
    /\ LET v == validate_dir_with_hash_file(disk[MarkerRoot])
       IN  outcome' = IF v = "ok" THEN Returned("ok", "")
                      ELSE Returned("err", v)
    /\ pc' = "validated"
    /\ component_hash' = Sha256Hex(<<>>)
    /\ UNCHANGED << disk, tainted, hash, pre, requests, idx, components,
                    metadata, version, pending, decision, counters, removing,
                    previous, quiet, externals, builder, hashing >>

NextMarker ==
    \/ create_root
    \/ \E c \in HashContents : edit_source(c)
    \/ \E text \in MarkerTexts : edit_marker(text)
    \/ remove_marker
    \/ \E h \in MarkerHashes : write_hash(h)
    \/ read_hash
    \/ validate_root

SpecMarker == InitMarker /\ [][NextMarker]_vars

(***************************************************************************)
(* Properties.                                                             *)
(***************************************************************************)
\* The request at idx has passed the cache check: pre and decision are its.
Checked == decision # "none"

HasMarker(dir) == dir.exists /\ IsFile(dir.tree, MarkerPath)

MarkerText(dir) == dir.tree[MarkerPath].content

HasManifest(dir) == dir.exists /\ IsFile(dir.tree, ManifestPath)

ManifestVersion(dir) == dir.tree[ManifestPath].content.version

ManifestSatisfies(req, dir) ==
    HasManifest(dir) /\ Matches(req, ManifestVersion(dir))

\* The hash of the root's current filtered contents.
Recomputed(dir) == hash_dir(dir.tree, <<>>, TRUE)

RECURSIVE Unpacked(_, _)
Unpacked(tree, entries) ==
    IF entries = <<>> THEN tree
    ELSE Unpacked(WriteFile(tree, Head(entries).path, Head(entries).content),
                  Tail(entries))

\* A root that holds exactly the archive of url and the marker of its hash.
Installed(url) ==
    LET t == Unpacked(EmptyTree, Archive(url))
    IN  [exists |-> TRUE, tree |-> WriteFile(t, MarkerPath, hash_dir(t, <<>>, TRUE))]

DistinctRoots(deps) ==
    \A i, j \in 1..Len(deps) : i # j => TargetPath(deps[i]) # TargetPath(deps[j])

ReturnedOk == pc = "ended" /\ outcome.status = "ok"

\* C1: idempotent install.  When the previous install() succeeded, nothing
\* outside changed the disk since it started and this call has the same
\* requests (with pairwise distinct roots), this call makes no registry call
\* and no download and, when it returns, returns the same solution.
C1_IdempotentInstall ==
    (pc # "idle" /\ previous.repeated /\ DistinctRoots(requests))
    => /\ apiCalls = 0
       /\ downloads = 0
       /\ removals = 0
       /\ (pc = "ended" => outcome.status = "ok"
                           /\ outcome.solution = previous.solution)

C1_Witness ==
    /\ ReturnedOk
    /\ previous.repeated
    /\ DistinctRoots(requests)
    /\ Len(outcome.solution) = 2
    /\ outcome.solution = previous.solution

\* C2: a cache hit fetches nothing.  When the root exists, its manifest
\* version satisfies the request and the marker is absent or well-formed and
\* equal to the recomputed hash, resolving the request deletes nothing, calls
\* no registry, downloads nothing and leaves the root as it was.
C2_CacheHitFetchesNothing ==
    ( /\ Checked
      /\ ManifestSatisfies(Component.version_req, pre.dir)
      /\ (HasMarker(pre.dir) =>
             IsSha256Text(MarkerText(pre.dir))
             /\ MarkerText(pre.dir) = Recomputed(pre.dir)) )
    => /\ decision = "hit"
       /\ apiCalls = pre.apiCalls
       /\ downloads = pre.downloads
       /\ removals = pre.removals
       /\ disk[Root] = pre.dir

C2_Witness ==
    /\ ReturnedOk
    /\ decision = "hit"
    /\ HasMarker(pre.dir)
    /\ tainted[Root]
    /\ disk[Root] = pre.dir

\* C3: a corrupt marker is stale, not fatal.  When the marker of the root is
\* not 64 hex characters and the manifest satisfies the request, the call
\* does not fail on the marker: the root is deleted and the component is
\* fetched again.
C3_CorruptMarkerIsStale ==
    ( /\ Checked
      /\ ManifestSatisfies(Component.version_req, pre.dir)
      /\ HasMarker(pre.dir)
      /\ ~IsSha256Text(MarkerText(pre.dir)) )
    => /\ decision = "stale"
       /\ pc \notin {"read_hash", "read_meta"} \/ removals = pre.removals + 1
       /\ ~(pc = "ended" /\ outcome.status = "err" /\ outcome.kind = "hash_file")
       /\ (ReturnedOk => /\ removals = pre.removals + 1
                         /\ apiCalls = pre.apiCalls + 1
                         /\ downloads = pre.downloads + 1
                         /\ disk[Root] = Installed(version.url))

C3_Witness ==
    /\ ReturnedOk
    /\ ManifestSatisfies(Component.version_req, pre.dir)
    /\ HasMarker(pre.dir)
    /\ MarkerText(pre.dir).form = "trunc"
    /\ downloads = 1

\* C4: changed contents are stale.  When the manifest satisfies the request
\* and the marker is well-formed but differs from the hash recomputed over
\* the root, the call fetches the component again and never returns the
\* changed directory as resolved.
C4_ChangedContentsAreStale ==
    ( /\ Checked
      /\ ManifestSatisfies(Component.version_req, pre.dir)
      /\ HasMarker(pre.dir)
      /\ IsSha256Text(MarkerText(pre.dir))
      /\ MarkerText(pre.dir) # Recomputed(pre.dir) )
    => /\ decision = "stale"
       /\ pc \notin {"read_hash", "read_meta"} \/ downloads = pre.downloads + 1
       /\ (ReturnedOk => /\ downloads = pre.downloads + 1
                         /\ disk[Root] # pre.dir
                         /\ disk[Root] = Installed(version.url))

C4_Witness ==
    /\ ReturnedOk
    /\ ManifestSatisfies(Component.version_req, pre.dir)
    /\ HasMarker(pre.dir)
    /\ IsSha256Text(MarkerText(pre.dir))
    /\ pre.dir.tree[<<"main.c">>] = FileNode(Source("edited", Url("", V100)))
    /\ decision = "stale"

\* C5: a version mismatch forces replacement.  When the root exists and its
\* manifest version does not satisfy the request, the whole old root is
\* removed before anything is unpacked, and after success the root holds
\* exactly the archive of the selected version and a fresh marker.
C5_MismatchForcesReplacement ==
    ( /\ Checked
      /\ HasManifest(pre.dir)
      /\ ~Matches(Component.version_req, ManifestVersion(pre.dir)) )
    => /\ decision = "stale"
       /\ (pc \in {"api", "select", "download"} => disk[Root] = NoDir)
       /\ (pc \in {"unpack", "hash", "write", "read_hash", "read_meta"}
             => removals = pre.removals + 1)
       /\ (pc \in {"read_hash", "read_meta"} \/ ReturnedOk
             => /\ Matches(Component.version_req, version.version)
                /\ disk[Root] = Installed(version.url))

C5_Witness ==
    /\ ReturnedOk
    /\ HasManifest(pre.dir)
    /\ ~Matches(Component.version_req, ManifestVersion(pre.dir))
    /\ IsFile(pre.dir.tree, <<"legacy.c">>)
    /\ ~IsFile(disk[Root].tree, <<"legacy.c">>)

\* C6: every resolved component, from a cache hit or from a fetch, has a
\* version that satisfies the constraint of its request.
C6_ResolvedVersionSatisfies ==
    /\ pc # "idle" =>
          \A i \in 1..Len(components) :
              Matches(requests[i].version_req, components[i].version)
    /\ ReturnedOk =>
          /\ Len(outcome.solution) = Len(requests)
          /\ \A i \in 1..Len(requests) :
                Matches(requests[i].version_req, outcome.solution[i].version)

C6_Witness ==
    /\ ReturnedOk
    /\ Len(outcome.solution) = 2
    /\ outcome.solution[1].version # outcome.solution[2].version
    /\ outcome.solution[1].path = outcome.solution[2].path

C8_FailedFetchLeavesNoMarker ==
    ( /\ pc = "ended"
      /\ outcome.status = "err"
      /\ outcome.kind \in {"registry", "no_match", "download", "unpack"} )
    => ~HasMarker(disk[outcome.root])

C8_Witness ==
    /\ pc = "ended"
    /\ outcome.status = "err"
    /\ outcome.kind = "unpack"
    /\ disk[outcome.root].exists
    /\ HasMarker(pre.dir)
    /\ MarkerText(pre.dir) = Recomputed(pre.dir)

\* C9: crash recovery.  A root left without marker by an abandoned call
\* (nobody edited it, no deletion is unfinished) is detected as stale by the
\* next call, which fetches again and does not fail on the missing marker.
C9_CrashRecovery ==
    ( /\ Checked
      /\ pre.dir.exists
      /\ ~HasMarker(pre.dir)
      /\ ~tainted[Root]
      /\ ~removing[Root] )
    => /\ decision = "stale"
       /\ ~(pc = "ended" /\ outcome.status = "err" /\ outcome.kind = "hash_file")

\* C10: version selection.  When some non-yanked published version satisfies
\* the constraint, the selection succeeds with a version of the list that is
\* not yanked, satisfies the constraint and has no non-yanked satisfying
\* version above it.
C10_VersionSelection ==
    LET req == Component.version_req
        Eligible(v) == ~v.yanked /\ Matches(req, v.version)
    IN  ( /\ pc # "select"
          /\ \E i \in 1..Len(metadata) : Eligible(metadata[i]) )
        => /\ pc = "download"
           /\ \E i \in 1..Len(metadata) : metadata[i] = version
           /\ Eligible(version)
           /\ \A i \in 1..Len(metadata) :
                 Eligible(metadata[i])
                 => ~VersionLess(version.version, metadata[i].version)

C10_Witness ==
    /\ pc = "download"
    /\ Len(metadata) = 3
    /\ metadata[1] = Published("mdns", V100, FALSE)
    /\ metadata[2] = Published("mdns", V110, TRUE)
    /\ metadata[3] = Published("mdns", V120, FALSE)
    /\ Component.version_req = Caret(V100)
    /\ version.version = V120

\* The version selection of the current request failed.
SelectionFailed ==
    pc = "ended" /\ outcome.status = "err" /\ outcome.kind = "no_match"

\* C11: selection failure.  Once the selection is made, it has failed with
\* the no-matching-version error exactly when no published version that is
\* not yanked satisfies the constraint (a version matched only by yanked
\* entries fails); after the failure no download was made and no marker is
\* at the root.
C11_SelectionFailure ==
    LET req == Component.version_req
        Eligible(v) == ~v.yanked /\ Matches(req, v.version)
    IN  pc \notin {"select", "idle"}
        => /\ SelectionFailed <=> ~\E i \in 1..Len(metadata) : Eligible(metadata[i])
           /\ SelectionFailed
              => /\ downloads = 0
                 /\ version = NoVersion
                 /\ ~HasMarker(disk[Root])

C11_Witness ==
    /\ SelectionFailed
    /\ Component.version_req = Exact(V110)
    /\ \E i \in 1..Len(metadata) :
          metadata[i].yanked /\ metadata[i].version = V110
    /\ \E i \in 1..Len(metadata) : ~metadata[i].yanked

\* C12: the available-versions list of the error.  When the selection
\* fails, the list holds the versions of the published entries that are not
\* yanked, one per entry, in registry order: the k-th entry that is not
\* yanked is the k-th element of the list.
C12_AvailableVersionsComplete ==
    LET avail == outcome.available_versions
        kept == { i \in 1..Len(metadata) : ~metadata[i].yanked }
        rank(i) == Cardinality({ j \in kept : j <= i })
    IN  SelectionFailed
        => /\ Len(avail) = Cardinality(kept)
           /\ \A i \in kept : avail[rank(i)] = metadata[i].version

C12_Witness ==
    /\ SelectionFailed
    /\ Component.version_req = Exact(V110)
    /\ metadata = << Published("mdns", V120, FALSE),
                     Published("mdns", V110, TRUE),
                     Published("mdns", V100, FALSE) >>
    /\ outcome.available_versions = << V120, V100 >>

\* C13 as stated: when the selection fails, every yanked published version
\* is in the available-versions list of the error.
C13_YankedListed ==
    SelectionFailed
    => \A i \in 1..Len(metadata) :
          metadata[i].yanked
          => \E k \in 1..Len(outcome.available_versions) :
                outcome.available_versions[k] = metadata[i].version

\* C13 amended: yanked versions are left out of the diagnostics.  When the
\* selection fails, every element of the available-versions list is the
\* version of a published entry that is not yanked, so a version published
\* only as yanked is not in the list.
C13_YankedNotListed ==
    SelectionFailed
    => \A k \in 1..Len(outcome.available_versions) :
          \E i \in 1..Len(metadata) :
             /\ ~metadata[i].yanked
             /\ metadata[i].version = outcome.available_versions[k]

C13_Witness ==
    /\ SelectionFailed
    /\ metadata = << Published("mdns", V100, FALSE),
                     Published("mdns", V110, TRUE) >>
    /\ Component.version_req = Exact(V110)
    /\ outcome.available_versions = << V100 >>

\* C14: batch ordering.  A successful install() returns as many resolved
\* components as there are requests, and the i-th has the namespace, the
\* name and the target path of the i-th request.
C14_BatchOrdering ==
    ReturnedOk
    => /\ Len(outcome.solution) = Len(requests)
       /\ \A i \in 1..Len(requests) :
             /\ outcome.solution[i].namespace = requests[i].namespace
             /\ outcome.solution[i].name = requests[i].name
             /\ outcome.solution[i].path = TargetPath(requests[i])

C14_Witness ==
    /\ ReturnedOk
    /\ Len(requests) = 2
    /\ requests[1].name = "led"
    /\ requests[2].name = "mdns"
    /\ outcome.solution[1].name = "led"
    /\ outcome.solution[2].name = "mdns"
    /\ apiCalls = 2

\* C15: the first failure aborts the batch.  Within a call the requests are
\* taken one after the other and only the root of the current request is
\* changed; when resolving request idx fails, the error carries no solution,
\* the call is over and its next step is the return to the caller, with no
\* change of the disk and no registry call, download or deletion: no request
\* after idx is processed.
C15_FirstFailureAborts ==
    [][ /\ (pc # "idle" /\ pc' # "idle") => idx' \in {idx, idx + 1}
        /\ pc # "idle" => \A r \in Roots : disk'[r] # disk[r] => r = Root
        /\ outcome'.status = "err"
           => /\ pc' = "ended"
              /\ outcome'.solution = <<>>
              /\ idx' = idx
        /\ outcome.status = "err"
           => /\ pc = "ended"
              /\ pc' = "idle"
              /\ disk' = disk
              /\ outcome'.status = "failed"
              /\ outcome'.solution = <<>>
              /\ apiCalls' = 0 /\ downloads' = 0 /\ removals' = 0 ]_vars

C15_Witness ==
    /\ pc = "ended"
    /\ outcome.status = "err"
    /\ outcome.kind = "registry"
    /\ idx = 1
    /\ Len(requests) = 2
    /\ TargetPath(requests[2]) # TargetPath(requests[1])
    /\ ~disk[TargetPath(requests[2])].exists
    /\ apiCalls = 1

\* C16: collision-free target roots.  Two requests a manager accepted whose
\* namespace or name differ have different target roots.
C16_CollisionFreeRoots ==
    \A i, j \in 1..Len(builder.components) :
        LET a == builder.components[i]
            b == builder.components[j]
        IN  (a.namespace # b.namespace \/ a.name # b.name)
            => TargetPath(a) # TargetPath(b)

\* C17: constraint parse failure at construction.  A with_component call
\* whose version string does not parse returns the version error, leaves
\* the component list as it was and changes neither the disk nor the
\* counts of registry calls, downloads and deletions.
C17_ParseFailureAtConstruction ==
    [][ (builder' # builder /\ ~VersionReq_parse(builder'.version_spec).ok)
        => /\ builder'.returned = "err"
           /\ builder'.error = "version_req"
           /\ builder'.components = builder.components
           /\ disk' = disk
           /\ apiCalls' = apiCalls
           /\ downloads' = downloads
           /\ removals' = removals
           /\ pc' = pc ]_vars

C17_Witness ==
    /\ builder.returned = "err"
    /\ builder.version_spec = "latest"
    /\ Len(split(builder.name, "/")) = 2
    /\ Len(builder.components) = 1

\* The exclude patterns in force in the directory that is hashed.
ActivePatterns ==
    (IF hashing.exclude_default THEN DEFAULT_EXCLUDE ELSE <<>>)
        \o hashing.excludes

\* Some active exclude pattern matches the path.
MatchesExclude(p) ==
    \E i \in 1..Len(ActivePatterns) : GlobMatch(ActivePatterns[i], p)

\* The path is the directory of an active default pattern "<dir>/**/*".
MatchesStrippedExclude(p) ==
    /\ hashing.exclude_default
    /\ \E i \in 1..Len(DEFAULT_EXCLUDE) :
          /\ IsGlobstar(DEFAULT_EXCLUDE[i])
          /\ GlobMatch(StripGlobstar(DEFAULT_EXCLUDE[i]), p)

\* hash_dir was called before and after the last edit.
Rehashed == hashing.hashed /\ hashing.compared

\* C18: hash determinism.  Whatever the order in which the filter hands
\* over the paths of the directory, hash_dir returns the hash it returned,
\* which is the hash of the entries in ascending order of relative path.
C18_HashDeterminism ==
    hashing.hashed
    => /\ \A entries \in Enumerations(filtered_paths(hashing.tree,
                              hashing.excludes, hashing.exclude_default)) :
             hash_dir_enumerated(hashing.tree, entries) = hashing.result
       /\ hashing.result = hash_dir(hashing.tree, hashing.excludes,
                                    hashing.exclude_default)

C18_Witness ==
    /\ hashing.hashed
    /\ Cardinality(filtered_paths(hashing.tree, hashing.excludes,
                                  hashing.exclude_default)) >= 3
    /\ IsFile(hashing.tree, <<"main.c">>)
    /\ IsFile(hashing.tree, <<"legacy.c">>)
    /\ Len(hashing.result.digest) >= 3

\* C19 as stated: adding a file that no active exclude pattern matches, or
\* changing the bytes of a file the filter includes, changes the hash.
C19_HashSensitivity ==
    ( /\ Rehashed
      /\ \/ hashing.edit = "add" /\ ~MatchesExclude(hashing.path)
         \/ /\ hashing.edit = "change"
            /\ hashing.path \in filtered_paths(hashing.tree, hashing.excludes,
                                               hashing.exclude_default) )
    => hashing.result # hashing.before

\* C19 amended: adding a file that no active exclude pattern matches and
\* that is not named as the directory of a default pattern "<dir>/**/*", or
\* changing the bytes of a file the filter includes, changes the hash.
C19_HashSensitivityOfIncluded ==
    ( /\ Rehashed
      /\ \/ /\ hashing.edit = "add"
            /\ ~MatchesExclude(hashing.path)
            /\ ~MatchesStrippedExclude(hashing.path)
         \/ /\ hashing.edit = "change"
            /\ hashing.path \in filtered_paths(hashing.tree, hashing.excludes,
                                               hashing.exclude_default) )
    => hashing.result # hashing.before

C19_Witness ==
    /\ Rehashed
    /\ hashing.edit = "add"
    /\ hashing.path = <<"main.c">>
    /\ hashing.exclude_default
    /\ IsFile(hashing.tree, <<"legacy.c">>)
    /\ hashing.result # hashing.before

\* C20: exclusion insensitivity.  Adding, removing or changing a file whose
\* path an active exclude pattern matches (a default pattern when the
\* default patterns apply, or a user pattern), at any depth, leaves the hash
\* as it was.
C20_ExclusionInsensitivity ==
    ( /\ Rehashed
      /\ hashing.edit \in {"add", "change", "remove"}
      /\ MatchesExclude(hashing.path) )
    => hashing.result = hashing.before

C20_Witness ==
    /\ Rehashed
    /\ hashing.edit = "add"
    /\ hashing.path = <<"build", "x.o">>
    /\ IsFile(hashing.tree, <<"main.c">>)
    /\ hashing.result = hashing.before

\* The directory that is hashed, with the marker file absent.
WithoutMarker == [hashing.tree EXCEPT ![MarkerPath] = Absent]

\* C21 as stated: whatever the excludes, hash_dir returns the same value
\* with the marker file absent and with it present, whatever it contains.
C21_SelfExclusion ==
    \A c \in HashContents :
        hash_dir(WriteFile(hashing.tree, MarkerPath, c), hashing.excludes,
                 hashing.exclude_default)
        = hash_dir(WithoutMarker, hashing.excludes, hashing.exclude_default)

\* C21 amended: when the default patterns apply or a user pattern matches
\* the marker file, hash_dir returns the same value with the marker file
\* absent and with it present, whatever it contains.
C21_SelfExclusionWhenExcluded ==
    (\/ hashing.exclude_default
     \/ \E i \in 1..Len(hashing.excludes) :
            GlobMatch(hashing.excludes[i], MarkerPath))
    => \A c \in HashContents :
          hash_dir(WriteFile(hashing.tree, MarkerPath, c), hashing.excludes,
                   hashing.exclude_default)
          = hash_dir(WithoutMarker, hashing.excludes, hashing.exclude_default)

C21_Witness ==
    /\ Rehashed
    /\ hashing.edit = "add"
    /\ hashing.path = MarkerPath
    /\ hashing.exclude_default
    /\ hashing.excludes = <<>>
    /\ IsFile(hashing.tree, <<"main.c">>)
    /\ hashing.result = hashing.before
    /\ hashing.result = hash_dir(WithoutMarker, <<>>, TRUE)

\* The inputs of test_posix_formatting.
TestPosixFormatting ==
    /\ hashing.root = <<"C:", "\\", "path", "\\">>
    /\ hashing.abs = <<"C:", "\\", "path", "\\", "to", "\\", "file.txt">>

\* C22: whatever the platform, to_relative_posix_path returns a relative
\* path separated by forward slashes only, and for the root C:\path\ and the
\* path C:\path\to\file.txt it returns to/file.txt.
C22_PathSeparatorInvariance ==
    hashing.relative.status # "none"
    => /\ hashing.relative.status = "ok"
          => \A i \in 1..Len(hashing.relative.text) :
                hashing.relative.text[i] # "\\"
       /\ TestPosixFormatting
          => hashing.relative = [status |-> "ok",
                                 text |-> <<"to", "/", "file.txt">>]

\* C23: within one install() every request is handled once, with at most one
\* registry call and at most one download since its cache check; none before
\* the deletion is over, no download before the selection; a registry or
\* download failure ends the call after that single attempt.
C23_NoRetry ==
    /\ pc = "check" => /\ apiCalls <= idx - 1
                       /\ downloads <= idx - 1
                       /\ Len(components) = idx - 1
    /\ pc \notin {"idle", "check"}
       => /\ apiCalls - pre.apiCalls \in {0, 1}
          /\ downloads - pre.downloads \in {0, 1}
          /\ downloads - pre.downloads <= apiCalls - pre.apiCalls
          /\ Len(components) \in {idx - 1, idx}
    /\ pc \in {"remove", "removing", "api"} => apiCalls = pre.apiCalls
    /\ pc \in {"remove", "removing", "api", "select", "download"}
       => downloads = pre.downloads
    /\ (pc = "ended" /\ outcome.status = "err" /\ outcome.kind = "registry")
       => apiCalls = pre.apiCalls + 1 /\ downloads = pre.downloads
    /\ (pc = "ended" /\ outcome.status = "err" /\ outcome.kind = "download")
       => apiCalls = pre.apiCalls + 1 /\ downloads = pre.downloads + 1

C23_Witness ==
    /\ pc = "ended"
    /\ outcome.status = "err"
    /\ outcome.kind = "download"
    /\ idx = 2
    /\ apiCalls = 2
    /\ downloads = 2

\* C24: when install() has ended on a component root that was unpacked and
\* carries no manifest, it has returned an error value and no resolved
\* component: the process is not aborted.
C24_ManifestMissingReturned ==
    (/\ pc = "ended"
     /\ disk[Root].exists
     /\ HasMarker(disk[Root])
     /\ ~read_component_metadata(disk[Root]).some)
    => outcome.status = "err" /\ outcome.solution = <<>>

\* The marker of the root holds a digest in hex, white space around it or
\* not.
MarkerIsHex ==
    MarkerText(disk[MarkerRoot]).form \in
        {"lower", "upper", "lower_ws", "upper_ws"}

\* The marker of the root holds, white space aside, the lowercase hex digest
\* hash_dir computes for the root without its marker.
MarkerIsCurrent ==
    /\ MarkerText(disk[MarkerRoot]).form \in {"lower", "lower_ws"}
    /\ MarkerText(disk[MarkerRoot]).digest =
          hash_dir(disk[MarkerRoot].tree, << <<HASH_FILENAME>> >>, TRUE).digest

\* C25: validate_dir_with_hash_file succeeds exactly when the root is a
\* directory, the marker exists, its trimmed content is 64 hex characters and
\* equals the recomputed hash; a malformed marker fails the pattern check
\* with its own error, whatever the directory holds, and a well-formed one
\* that differs fails with the mismatch error.
C25_MarkerValidation ==
    pc = "validated"
    => /\ outcome.status = "ok"
          <=> /\ disk[MarkerRoot].exists
              /\ HasMarker(disk[MarkerRoot])
              /\ MarkerIsHex
              /\ MarkerIsCurrent
       /\ (HasMarker(disk[MarkerRoot]) /\ ~MarkerIsHex)
          => outcome = Returned("err", "not_a_sha256")
       /\ (HasMarker(disk[MarkerRoot]) /\ MarkerIsHex /\ ~MarkerIsCurrent)
          => outcome = Returned("err", "hash_changed")
       /\ ~HasMarker(disk[MarkerRoot])
          => outcome = Returned("err", "hash_file_missing")

C25_Witness ==
    /\ pc = "validated"
    /\ outcome.status = "ok"
    /\ MarkerText(disk[MarkerRoot]).form = "lower_ws"
    /\ IsFile(disk[MarkerRoot].tree, <<"main.c">>)

\* C26: after write_hash_file(root, h) the marker holds h, whatever it held
\* before, and a read that follows returns exactly h; a read returns the
\* content of the marker without the white space around it, and fails when
\* the root has no marker.
C26_MarkerRoundTrip ==
    /\ pc = "wrote" => /\ HasMarker(disk[MarkerRoot])
                       /\ MarkerText(disk[MarkerRoot]) = hash
    /\ (pc = "read" /\ HasMarker(disk[MarkerRoot]) /\ ~tainted[MarkerRoot])
       => outcome.status = "ok" /\ component_hash = hash
    /\ (pc = "read" /\ HasMarker(disk[MarkerRoot]))
       => /\ outcome.status = "ok"
          /\ component_hash.digest = MarkerText(disk[MarkerRoot]).digest
          /\ component_hash.form \in {"lower", "upper", "trunc"}
          /\ MarkerText(disk[MarkerRoot]).form \in
                {component_hash.form, component_hash.form \o "_ws"}
    /\ (pc = "read" /\ ~HasMarker(disk[MarkerRoot]))
       => outcome = Returned("err", "hash_file")

C26_Witness ==
    /\ pc = "read"
    /\ ~tainted[MarkerRoot]
    /\ HasMarker(pre.dir)
    /\ MarkerText(pre.dir).digest # hash.digest
    /\ component_hash = hash
    /\ outcome.status = "ok"

\* The files of the filtered set of the directory that is hashed.
FilteredFiles ==
    { p \in filtered_paths(hashing.tree, hashing.excludes,
                           hashing.exclude_default) : IsFile(hashing.tree, p) }

\* C27: what hash_dir feeds into the hash is, for each file of the filtered
\* set and for nothing else, the relative path followed by the lowercase hex
\* SHA-256 of the content, in ascending order of the relative path;
\* directories feed nothing, so creating or removing an empty directory
\* leaves the hash as it was.
C27_HashInputOrder ==
    /\ hashing.hashed
       => LET fed == hashing.result.digest
          IN  /\ hashing.result.form = "lower"
              /\ Len(fed) = Cardinality(FilteredFiles)
              /\ \A i \in 1..Len(fed) :
                    /\ fed[i].path \in FilteredFiles
                    /\ fed[i].digest =
                          [form |-> "lower",
                           digest |-> hashing.tree[fed[i].path].content]
              /\ \A i, j \in 1..Len(fed) :
                    i < j => PosixRank(fed[i].path) < PosixRank(fed[j].path)
    /\ (Rehashed /\ hashing.edit \in {"mkdir", "rmdir"})
       => hashing.result = hashing.before

C27_Witness ==
    /\ Rehashed
    /\ hashing.edit = "mkdir"
    /\ ~hashing.exclude_default
    /\ hashing.tree[<<"build">>].kind = "dir"
    /\ <<"build">> \in filtered_paths(hashing.tree, hashing.excludes,
                                      hashing.exclude_default)
    /\ Cardinality(FilteredFiles) >= 2
    /\ hashing.result = hashing.before

\* C28: without user patterns, filtered_paths with the default excludes
\* returns exactly the paths under the root that no default pattern matches
\* and that no default pattern ending in "/**/*" matches once that ending is
\* cut off (here: everything but build, what is under it, and the marker);
\* without the default excludes it returns every path under the root.
C28_DefaultExcludes ==
    (hashing.listed /\ hashing.excludes = <<>>)
    => IF hashing.exclude_default
       THEN /\ hashing.paths =
                 { p \in Present(hashing.tree) :
                     \A i \in 1..Len(DEFAULT_EXCLUDE) :
                        /\ ~GlobMatch(DEFAULT_EXCLUDE[i], p)
                        /\ IsGlobstar(DEFAULT_EXCLUDE[i])
                           => ~GlobMatch(StripGlobstar(DEFAULT_EXCLUDE[i]), p) }
            /\ hashing.paths =
                 Present(hashing.tree) \
                    { <<"build">>, <<"build", "x.o">>, MarkerPath }
       ELSE hashing.paths = Present(hashing.tree)

C28_Witness ==
    /\ hashing.listed
    /\ hashing.excludes = <<>>
    /\ hashing.exclude_default
    /\ hashing.tree[<<"build">>].kind = "dir"
    /\ IsFile(hashing.tree, <<"build", "x.o">>)
    /\ IsFile(hashing.tree, MarkerPath)
    /\ hashing.paths = { <<"main.c">>, <<"legacy.c">> }

\* C29 as stated: for a user pattern P/**/*, filtered_paths removes the
\* matches of P/**/* and the entry matching P.
C29_UserExcludesStripDirectory ==
    hashing.listed
    => \A i \in 1..Len(hashing.excludes) :
          IsGlobstar(hashing.excludes[i])
          => \A p \in Present(hashing.tree) :
                (\/ GlobMatch(hashing.excludes[i], p)
                 \/ GlobMatch(StripGlobstar(hashing.excludes[i]), p))
                => p \notin hashing.paths

\* Some pattern in force removes p: a user pattern that matches it, or, with
\* the default excludes, a default pattern that matches it as it is or after
\* its "/**/*" ending is cut off.
RemovedByAPattern(p) ==
    \/ \E i \in 1..Len(hashing.excludes) : GlobMatch(hashing.excludes[i], p)
    \/ /\ hashing.exclude_default
       /\ \E i \in 1..Len(DEFAULT_EXCLUDE) :
             \/ GlobMatch(DEFAULT_EXCLUDE[i], p)
             \/ /\ IsGlobstar(DEFAULT_EXCLUDE[i])
                /\ GlobMatch(StripGlobstar(DEFAULT_EXCLUDE[i]), p)

\* C29 amended: for a user pattern P/**/*, filtered_paths removes the
\* matches of P/**/*; the entry matching P is removed only when a pattern in
\* force removes it, the rule for P being applied to default patterns alone.
C29_UserExcludesKeepDirectory ==
    hashing.listed
    => \A i \in 1..Len(hashing.excludes) :
          IsGlobstar(hashing.excludes[i])
          => \A p \in Present(hashing.tree) :
                /\ GlobMatch(hashing.excludes[i], p) => p \notin hashing.paths
                /\ GlobMatch(StripGlobstar(hashing.excludes[i]), p)
                   => (p \in hashing.paths <=> ~RemovedByAPattern(p))

C29_Witness ==
    /\ hashing.listed
    /\ hashing.excludes = << <<"build", "**", "*">> >>
    /\ ~hashing.exclude_default
    /\ hashing.tree[<<"build">>].kind = "dir"
    /\ IsFile(hashing.tree, <<"build", "x.o">>)
    /\ <<"build">> \in hashing.paths
    /\ <<"build", "x.o">> \notin hashing.paths

\* C30: in a fetch the registry is queried only once the old root is gone,
\* the download starts only once the query and the selection are done, the
\* marker is written only once the archive is unpacked and the unpacked
\* root hashed, and a failing deletion ends the call with no registry call,
\* no download and no write.
C30_FetchOrder ==
    [][ /\ apiCalls' > apiCalls
           => /\ ~disk[Root].exists
              /\ pre.dir.exists => removals = pre.removals + 1
              /\ downloads = pre.downloads
        /\ downloads' > downloads
           => /\ apiCalls = pre.apiCalls + 1
              /\ \E i \in 1..Len(metadata) : metadata[i] = version
              /\ Matches(Component.version_req, version.version)
        /\ (/\ pc \notin {"idle", "ended"}
            /\ IsFile(disk'[Root].tree, MarkerPath)
            /\ disk'[Root].tree[MarkerPath] # disk[Root].tree[MarkerPath])
           => /\ downloads = pre.downloads + 1
              /\ pending = <<>>
              /\ disk[Root].tree = Unpacked(EmptyTree, Archive(version.url))
              /\ hash = hash_dir(disk[Root].tree, <<>>, TRUE)
        /\ (pc = "removing" /\ pc' = "ended")
           => /\ outcome'.status = "err"
              /\ apiCalls' = pre.apiCalls
              /\ downloads' = pre.downloads
              /\ disk' = disk
      ]_vars

C30_Witness ==
    /\ pc = "read_hash"
    /\ decision = "stale"
    /\ pre.dir.exists
    /\ removals = pre.removals + 1
    /\ apiCalls = pre.apiCalls + 1
    /\ downloads = pre.downloads + 1
    /\ HasMarker(disk[Root])
    /\ MarkerText(disk[Root]) = hash

\* C31: a step of install() on the request at hand leaves every root but the
\* request's own as it is, and leaves the components resolved so far in
\* place at the head of the result.
C31_IndependentResolution ==
    [][ pc \notin {"idle", "ended"}
        => /\ \A r \in Roots \ {Root} : disk'[r] = disk[r]
           /\ pc' # "idle"
              => /\ Len(components') >= Len(components)
                 /\ SubSeq(components', 1, Len(components)) = components
      ]_vars

C31_Witness ==
    /\ pc = "read_hash"
    /\ idx = 2
    /\ decision = "stale"
    /\ Root # TargetPath(requests[1])
    /\ HasMarker(disk[Root])
    /\ Len(components) = 1
    /\ disk[TargetPath(requests[1])] = Installed(Url("mdns", V120))

\* The positions of the slashes of a name.
Slashes(name) == { i \in 1..Len(name) : name[i] = "/" }

\* C32: a call of with_component whose version request parses is accepted
\* exactly when the name has one slash, that is two parts; the parts become
\* namespace and name of a request appended to the list; a name with no
\* slash or with several returns an error and leaves the list as it was.
C32_ComponentNameFormat ==
    [][ builder' # builder
        => LET name == builder'.name
               at == Slashes(name)
           IN  /\ VersionReq_parse(builder'.version_spec).ok
                  => (builder'.returned = "ok" <=> Cardinality(at) = 1)
               /\ Cardinality(at) # 1
                  => /\ builder'.returned = "err"
                     /\ builder'.components = builder.components
               /\ builder'.returned = "ok"
                  => LET k == CHOOSE i \in at : TRUE
                     IN  /\ Len(builder'.components) = Len(builder.components) + 1
                         /\ SubSeq(builder'.components, 1, Len(builder.components))
                               = builder.components
                         /\ builder'.components[Len(builder'.components)] =
                               IdfComponentDep(
                                  to_string(SubSeq(name, 1, k - 1)),
                                  to_string(SubSeq(name, k + 1, Len(name))),
                                  VersionReq_parse(builder'.version_spec).req)
      ]_vars

C32_Witness ==
    /\ builder.returned = "ok"
    /\ Len(builder.components) = 2
    /\ builder.components[1].namespace = "a"
    /\ builder.components[1].name = ""
    /\ builder.components[2].namespace = ""
    /\ builder.components[2].name = "_"

\* The marker of the root holds, in upper case hex and white space aside,
\* the digest hash_dir computes for the root without its marker.
MarkerIsCurrentInUpperCase ==
    /\ MarkerText(disk[MarkerRoot]).form \in {"upper", "upper_ws"}
    /\ MarkerText(disk[MarkerRoot]).digest =
          hash_dir(disk[MarkerRoot].tree, << <<HASH_FILENAME>> >>, TRUE).digest

\* C33: a marker that holds the right digest in upper case hex passes the
\* pattern check and fails the comparison; a marker that validates holds the
\* digest in lower case hex.
C33_MarkerCaseSensitive ==
    pc = "validated"
    => /\ (HasMarker(disk[MarkerRoot]) /\ MarkerIsCurrentInUpperCase)
          => /\ IsSha256Text(trim(MarkerText(disk[MarkerRoot])))
             /\ outcome = Returned("err", "hash_changed")
       /\ outcome.status = "ok"
          => /\ MarkerText(disk[MarkerRoot]).form \in {"lower", "lower_ws"}
             /\ trim(MarkerText(disk[MarkerRoot])) =
                   hash_dir(disk[MarkerRoot].tree, << <<HASH_FILENAME>> >>, TRUE)

C33_Witness ==
    /\ pc = "validated"
    /\ HasMarker(disk[MarkerRoot])
    /\ MarkerIsCurrentInUpperCase
    /\ IsFile(disk[MarkerRoot].tree, <<"main.c">>)
    /\ outcome = Returned("err", "hash_changed")

\* C34: when install() returns a solution, the version of every entry is
\* the version in the manifest that is on disk at the entry's path.
C34_SolutionAgreesWithDisk ==
    ReturnedOk
    => \A i \in 1..Len(outcome.solution) :
          /\ HasManifest(disk[outcome.solution[i].path])
          /\ ManifestVersion(disk[outcome.solution[i].path])
                = outcome.solution[i].version

\* C35: every resolved component carries a hash, the content of the marker
\* at its root at the time it is resolved; with no marker at the root after
\* the cache check or the fetch, the call ends in an error and no component
\* is resolved.
C35_ResolvedHashPresent ==
    [][ /\ (pc = "read_meta" /\ Len(components') > Len(components))
           => LET resolved == components'[Len(components')]
              IN  /\ resolved.component_hash.some
                  /\ HasMarker(disk[Root])
                  /\ resolved.path = Root
                  /\ resolved.component_hash.hash.form = "lower"
                  /\ resolved.component_hash.hash = MarkerText(disk[Root])
        /\ (pc = "read_hash" /\ ~HasMarker(disk[Root]))
           => /\ pc' \in {"ended", "idle"}
              /\ pc' = "ended" => /\ outcome'.status = "err"
                                  /\ outcome'.solution = <<>>
              /\ Len(components') <= Len(components)
        /\ (pc' = "ended" /\ outcome'.status = "ok")
           => \A i \in 1..Len(outcome'.solution) :
                 outcome'.solution[i].component_hash.some
      ]_vars

C35_Witness ==
    /\ ReturnedOk
    /\ Len(outcome.solution) = 2
    /\ \A i \in 1..2 :
          /\ outcome.solution[i].component_hash.some
          /\ HasMarker(disk[outcome.solution[i].path])
          /\ outcome.solution[i].component_hash.hash
                = MarkerText(disk[outcome.solution[i].path])

(***************************************************************************)
(* The bytes hash_dir feeds into the outer SHA-256 (hashing.rs), byte by   *)
(* byte.  A relative path and a file digest are sequences of bytes; the    *)
(* files of the filtered tree are pairs of a relative path and the digest  *)
(* of the file's content.                                                  *)
(***************************************************************************)
\* The length of the text hash_file returns (64 hex characters in the
\* program), scaled down.
DigestLen == 1

\* The longest relative path of a file in the hashed directory.
MaxPathLen == 3

\* The bytes of relative paths and of digests: characters that are file name
\* characters and lowercase hex digits at once, in ascending byte order.
FeedBytes == <<"a", "b">>

\* The hashed directory holds up to as many files as there are bytes, enough
\* for a file at every path of one byte.
MaxFiles == Len(FeedBytes)

ByteOf == { FeedBytes[i] : i \in 1..Len(FeedBytes) }

RECURSIVE Texts(_)
\* The byte strings of length n.
Texts(n) ==
    IF n = 0 THEN { <<>> }
    ELSE { <<c>> \o t : c \in ByteOf, t \in Texts(n - 1) }

\* The relative paths of the files that are hashed.
FeedPaths == UNION { Texts(n) : n \in 1..MaxPathLen }

\* The texts hash_file returns.
FeedDigests == Texts(DigestLen)

ByteLess(c, d) ==
    \E i, j \in 1..Len(FeedBytes) : FeedBytes[i] = c /\ FeedBytes[j] = d /\ i < j

RECURSIVE StrLess(_, _)
\* a.cmp(&b) = Less on two Strings: lexicographic by bytes.
StrLess(a, b) ==
    IF a = <<>> THEN b # <<>>
    ELSE IF b = <<>> THEN FALSE
    ELSE IF Head(a) = Head(b) THEN StrLess(Tail(a), Tail(b))
    ELSE ByteLess(Head(a), Head(b))

RECURSIVE SortByBytes(_)
\* entries.sort_by(|(_, a), (_, b)| a.cmp(&b)) on the files of the tree.
SortByBytes(files) ==
    IF files = {} THEN <<>>
    ELSE LET least == CHOOSE f \in files :
                         \A g \in files \ {f} : StrLess(f.rel_path, g.rel_path)
         IN  <<least>> \o SortByBytes(files \ {least})

\* sha.update(data): the bytes are appended to what the hasher was fed.
update(sha, data) == sha \o data

RECURSIVE FeedLoop_paths_only(_, _)
\* A loop of hash_dir that feeds the relative paths and not the digests.
FeedLoop_paths_only(sha, entries) ==
    IF entries = <<>> THEN sha
    ELSE FeedLoop_paths_only(update(sha, Head(entries).rel_path),
                             Tail(entries))

RECURSIVE FeedLoop(_, _)
\* The loop of hash_dir over the sorted files: sha.update(rel_path) and then
\* sha.update(hash_file(&path)), nothing in between.
FeedLoop(sha, entries) ==
    IF entries = <<>> THEN sha
    ELSE FeedLoop(update(update(sha, Head(entries).rel_path),
                         Head(entries).digest),
                  Tail(entries))

InitFeed ==
    /\ disk = [r \in Roots |-> NoDir]
    /\ tainted = [r \in Roots |-> FALSE]
    /\ removing = [r \in Roots |-> FALSE]
    /\ pc = "idle"
    /\ requests = <<>>
    /\ idx = 0
    /\ components = <<>>
    /\ metadata = <<>>
    /\ version = NoVersion
    /\ pending = <<>>
    /\ hash = Sha256Hex(<<>>)
    /\ component_hash = Sha256Hex(<<>>)
    /\ outcome = NoOutcome
    /\ pre = NoSnapshot
    /\ decision = "none"
    /\ apiCalls = 0
    /\ downloads = 0
    /\ removals = 0
    /\ previous = NoPrevious
    /\ quiet = TRUE
    /\ externals = 0
    /\ builder = NoBuilder
    /\ hashing = NoHashing

\* The directory after a file was written or removed: nothing is fed yet.
Refiled(files) ==
    /\ hashing' = [hashing EXCEPT !.files = files, !.fed = FALSE,
                                  !.bytes = <<>>]
    /\ UNCHANGED << disk, tainted, removing, pc, requests, idx, components,
                    locals, outcome, pre, decision, counters, previous, quiet,
                    externals, builder >>

\* A file is created at a relative path; digest is what hash_file returns
\* for its content.
create_file(path, digest) ==
    /\ Cardinality(hashing.files) < MaxFiles
    /\ \A f \in hashing.files : f.rel_path # path
    /\ Refiled(hashing.files \cup { [rel_path |-> path, digest |-> digest] })

\* The content of a file changes, and with it the digest of the file.
rewrite_file(path, digest) ==
    \E f \in hashing.files :
        /\ f.rel_path = path
        /\ f.digest # digest
        /\ Refiled((hashing.files \ {f})
                      \cup { [rel_path |-> path, digest |-> digest] })

delete_file(path) ==
    \E f \in hashing.files :
        /\ f.rel_path = path
        /\ Refiled(hashing.files \ {f})

\* hash_dir runs over the directory, up to sha.finalize().
feed_root ==
    /\ ~hashing.fed
    /\ hashing' = [hashing EXCEPT
                     !.fed = TRUE,
                     !.bytes = FeedLoop(<<>>, SortByBytes(hashing.files))]
    /\ UNCHANGED << disk, tainted, removing, pc, requests, idx, components,
                    locals, outcome, pre, decision, counters, previous, quiet,
                    externals, builder >>

NextFeed ==
    \/ \E path \in FeedPaths, digest \in FeedDigests : create_file(path, digest)
    \/ \E path \in FeedPaths, digest \in FeedDigests : rewrite_file(path, digest)
    \/ \E path \in FeedPaths : delete_file(path)
    \/ feed_root

SpecFeed == InitFeed /\ [][NextFeed]_vars

RECURSIVE Decodings(_, _)
\* Every set of (relative path, digest) pairs, with paths of any length
\* above the path `after`, that the loop of hash_dir turns into `bytes`: a
\* path is cut off the front, then a digest of DigestLen bytes, and the rest
\* is decoded with paths above that path.
Decodings(bytes, after) ==
    IF bytes = <<>> THEN { {} }
    ELSE UNION {
           LET path == SubSeq(bytes, 1, k)
               digest == SubSeq(bytes, k + 1, k + DigestLen)
               rest == SubSeq(bytes, k + DigestLen + 1, Len(bytes))
           IN  IF StrLess(after, path)
               THEN { { [rel_path |-> path, digest |-> digest] } \cup more :
                         more \in Decodings(rest, path) }
               ELSE {} :
           k \in 1..(Len(bytes) - DigestLen) }

RelPaths(files) == { f.rel_path : f \in files }

\* C36: the bytes fed into the outer SHA-256 are different for any two
\* different sets of (relative path, file digest) pairs: the bytes that were
\* fed for a directory come from the pairs of that directory and from no
\* other set of pairs.
C36_UnambiguousHashInput ==
    hashing.fed => Decodings(hashing.bytes, <<>>) = { hashing.files }

\* C36, amended: the bytes fed into the outer SHA-256 are different for any
\* two different sets of (relative path, file digest) pairs over the same
\* relative paths: a set of pairs that gives the bytes fed for a directory
\* and has the directory's relative paths is the set of pairs of the
\* directory.
C36_UnambiguousForSamePaths ==
    hashing.fed
    => /\ hashing.files \in Decodings(hashing.bytes, <<>>)
       /\ \A files \in Decodings(hashing.bytes, <<>>) :
             RelPaths(files) = RelPaths(hashing.files)
             => files = hashing.files

C36_Witness ==
    /\ hashing.fed
    /\ Cardinality(hashing.files) = 2
    /\ \E f, g \in hashing.files : f.digest # g.digest
    /\ \E files \in Decodings(hashing.bytes, <<>>) :
          /\ files # hashing.files
          /\ Cardinality(files) = 1

=============================================================================
